---- MODULE Spec2Model ----
(***************************************************************************)
(* A model of the apiformes MQTT v5 broker core: the subscription index    *)
(* (server-lib/src/topics.rs), the dispatcher (server-lib/src/             *)
(* dispatcher.rs), the client manager (server-lib/src/clients/mod.rs) and  *)
(* the connection workers (server_async/clients/clientworker.rs).          *)
(*                                                                         *)
(* Strings are sequences of one-character strings, so that splitting a     *)
(* topic into its sections is computed and not assumed.                    *)
(***************************************************************************)
EXTENDS Integers, Sequences, FiniteSets, TLC

(***************************************************************************)
(* Bounds of the model.                                                    *)
(***************************************************************************)
\* longest topic or filter string handed to the index interface
MaxLen == 3
\* number of subscribe calls made on the index interface
MaxSubscribes == 2
\* number of connections the listeners accept
MaxConns == 2
\* number of packets the clients send after their handshakes
MaxPackets == 3
\* number of (filter, options) entries in a SUBSCRIBE
MaxEntries == 2
\* capacity of the dispatcher's input channel, in items
QueueLen == 1

\* the characters topics and filters are written with
Alphabet == {"a", "/", "+", "#"}
\* the client identifiers in use
ClientIds == {"c1", "c2"}

VARIABLES
    root_block,     \* TopicsTable.root_block: path -> BlockInner
    reverse_index,  \* TopicsTable.reverse_index: clientid -> set of filters
    subs,           \* the call whose result the caller is looking at, or NoLookup
    subscribed,     \* history: the (clientid, filter) pairs subscribed, with their info
    roundtrip,      \* history: a subscribe of a fresh pair and the unsubscribe that follows it
    nsubscribes,    \* number of subscribe calls made so far
    noise,          \* whether the build has the "noise" feature
    channel_permeability, \* MqttServerConfig.channel_permeability
    conn,           \* the connections: state, clientid, encrypted
    rx,             \* ClientManager.rx: the workers handed over, not yet taken
    clients,        \* the directory: clientid -> the connection whose handle it holds
    incoming,       \* the dispatcher's input channel of PacketInfo
    outgoing,       \* per connection, its outbound channel
    dispatcher,     \* where the dispatcher task is
    npackets,       \* number of packets the clients have sent so far
    granted_on,     \* history: per connection, the filters granted by the SUBACKs sent on its channel
    handled,        \* history: what the dispatcher did with the last packet it was done with
    disconnected,   \* history: the connections whose worker has written a DISCONNECT to its peer
    calls,          \* per concurrent caller of the index, the call it is in
    handshake,      \* per connection, the task that runs its CONNECT handshake
    shutdown,       \* the process-wide shutdown Notify and the call of MqttServer::shutdown
    tasks,          \* the long-running tasks of the server and where each is
    reader,         \* an MqttClient and the bytes its peer sends: recv's buffer and result
    server,         \* a call of MqttServer::new: the configuration and what it built
    codec           \* a value of the packet crate and what its operations made of it

apiVars == <<subs, subscribed, roundtrip, nsubscribes>>
cfgVars == <<noise, channel_permeability>>
brokerVars == <<noise, channel_permeability, conn, rx, clients, incoming, outgoing,
                dispatcher, npackets, granted_on, handled, disconnected>>
auxVars == <<handshake, shutdown, tasks, reader, server, codec>>
vars == <<root_block, reverse_index, subs, subscribed, roundtrip, nsubscribes,
          noise, channel_permeability, conn, rx, clients, incoming, outgoing,
          dispatcher, npackets, granted_on, handled, disconnected, calls,
          handshake, shutdown, tasks, reader, server, codec>>

\* the values of the variables of the parts of the server a specification
\* leaves out
NoHandshake == <<>>
NoShutdown == [called |-> FALSE, permit |-> FALSE, woken |-> {}, returned |-> FALSE]
NoTasks == <<>>
NoReader == [state |-> "none"]
NoServer == [state |-> "none"]
NoCodec == [op |-> "none"]
InitAuxIdle ==
    /\ handshake = NoHandshake
    /\ shutdown = NoShutdown
    /\ tasks = NoTasks
    /\ reader = NoReader
    /\ server = NoServer
    /\ codec = NoCodec

(***************************************************************************)
(* Strings, topics and filters.                                            *)
(***************************************************************************)
RECURSIVE StrsUpTo(_)
StrsUpTo(n) ==
    IF n = 0 THEN {<<>>}
    ELSE LET S == StrsUpTo(n - 1)
         IN S \cup {Append(s, ch) : s \in {x \in S : Len(x) = n - 1}, ch \in Alphabet}

\* a '#' that need not be the last character
is_valid_topic_hash_anywhere(topic) ==
    \A i \in 1..Len(topic) :
        LET prev == IF i = 1 THEN "/" ELSE topic[i - 1]
            peek == IF i < Len(topic) THEN topic[i + 1] ELSE "/"
        IN /\ topic[i] = "#" => prev = "/"
           /\ topic[i] = "+" => (prev = "/" /\ peek = "/")

\* packet/src/topic.rs is_valid_topic: '#' is a whole level and the last
\* character, '+' is a whole level
is_valid_topic(topic) ==
    \A i \in 1..Len(topic) :
        LET c == topic[i]
            prev == IF i = 1 THEN "/" ELSE topic[i - 1]
            more == i < Len(topic)
            peek == IF more THEN topic[i + 1] ELSE "/"
        IN /\ (c = "#") => ~(prev # "/" \/ more)
           /\ (c = "+") => ~(prev # "/" \/ peek # "/")

\* MqttTopic::is_wildcard
is_wildcard(topic) == \E i \in 1..Len(topic) : topic[i] \in {"#", "+"}

\* the filters a SUBSCRIBE can carry, and the topics a PUBLISH can carry
Filters == {s \in StrsUpTo(MaxLen) : is_valid_topic(s)}
Topics == {s \in Filters : ~is_wildcard(s)}

\* str::split('/')
RECURSIVE split(_)
split(s) ==
    IF \A i \in 1..Len(s) : s[i] # "/" THEN <<s>>
    ELSE LET i == CHOOSE j \in 1..Len(s) : s[j] = "/" /\ \A k \in 1..(j - 1) : s[k] # "/"
         IN <<SubSeq(s, 1, i - 1)>> \o split(SubSeq(s, i + 1, Len(s)))

\* TopicsTable::topic_to_subtopics: an empty first section becomes "/"
topic_to_subtopics(topic) ==
    LET sections == split(topic)
        starting_point == IF Head(sections) = <<>> THEN <<"/">> ELSE Head(sections)
    IN <<starting_point>> \o Tail(sections)

(***************************************************************************)
(* Maps (HashMap) as functions with a finite domain.                       *)
(***************************************************************************)
EmptyMap == [x \in {} |-> x]
MapInsert(m, k, v) == [x \in (DOMAIN m) \cup {k} |-> IF x = k THEN v ELSE m[x]]
MapRemove(m, k) == [x \in (DOMAIN m) \ {k} |-> m[x]]

\* SubscriptionInfo::new
SubscriptionInfo(qos, flags) == [qos |-> qos, flags |-> flags]

\* BlockInner::new
BlockInner_new == [hash_wildcard |-> EmptyMap, subscribers |-> EmptyMap]

\* TopicsTable::new: the root block alone, and an empty reverse index
RootPath == <<>>
TopicsTable_new == [root_block |-> [p \in {RootPath} |-> BlockInner_new],
                    reverse_index |-> EmptyMap]

(***************************************************************************)
(* The subscription tree.  A block is named by the path of sections that   *)
(* leads to it; block p has the sub-block s iff Append(p, s) is a block.   *)
(***************************************************************************)
IsPrefix(p, q) == Len(p) <= Len(q) /\ SubSeq(q, 1, Len(p)) = p

\* Block::contains_subtopic
contains_subtopic(tree, self, subtopic) == Append(self, subtopic) \in DOMAIN tree

\* HashMap::insert of a new Block under `subtopic`: a block that was there
\* is replaced, with everything below it
insert_block(tree, self, subtopic) ==
    LET sub == Append(self, subtopic)
        kept == {p \in DOMAIN tree : ~IsPrefix(sub, p)} \cup {sub}
    IN [p \in kept |-> IF p = sub THEN BlockInner_new ELSE tree[p]]

\* Block::create_if_not_existing
create_if_not_existing(tree, self, subtopic) ==
    IF ~contains_subtopic(tree, self, subtopic)
    THEN insert_block(tree, self, subtopic)
    ELSE tree

\* Block::visit: walks down `sections`, creating the missing blocks when
\* `create`; yields the tree and the block `run` is called on (at is <<>>
\* when the walk ends at a missing block and run is not called)
RECURSIVE Block_visit(_, _, _, _)
Block_visit(tree, self, sections, create) ==
    IF sections = <<>>
    THEN [tree |-> tree, at |-> <<self>>, is_hash |-> FALSE]
    ELSE IF Head(sections) = <<"#">>
    THEN [tree |-> tree, at |-> <<self>>, is_hash |-> TRUE]
    ELSE LET section == Head(sections)
             t1 == IF create THEN create_if_not_existing(tree, self, section) ELSE tree
         IN IF contains_subtopic(t1, self, section)
            THEN Block_visit(t1, Append(self, section), Tail(sections), create)
            ELSE [tree |-> t1, at |-> <<>>, is_hash |-> FALSE]

\* TopicsTable::visit
TopicsTable_visit(tree, topic, create) ==
    Block_visit(tree, RootPath, topic_to_subtopics(topic), create)

\* BlockInner::insert_into_hash
insert_into_hash(block, clientid, qos, flags) ==
    [block EXCEPT !.hash_wildcard = MapInsert(@, clientid, SubscriptionInfo(qos, flags))]

\* BlockInner::remove_from_hash
remove_from_hash(block, clientid) ==
    [block EXCEPT !.hash_wildcard = MapRemove(@, clientid)]

\* BlockInner::insert_into_subs
insert_into_subs(block, clientid, qos, flags) ==
    [block EXCEPT !.subscribers = MapInsert(@, clientid, SubscriptionInfo(qos, flags))]

\* BlockInner::remove_from_subs
remove_from_subs(block, clientid) ==
    [block EXCEPT !.subscribers = MapRemove(@, clientid)]

\* TopicsTable::topics_add
topics_add(tree, clientid, topic, qos, flags) ==
    LET v == TopicsTable_visit(tree, topic, TRUE)
    IN IF v.at = <<>> THEN v.tree
       ELSE [v.tree EXCEPT ![v.at[1]] =
                IF v.is_hash THEN insert_into_hash(@, clientid, qos, flags)
                ELSE insert_into_subs(@, clientid, qos, flags)]

\* TopicsTable::reverse_index_add
reverse_index_add(index, clientid, topic) ==
    IF clientid \in DOMAIN index
    THEN [index EXCEPT ![clientid] = @ \cup {topic}]
    ELSE MapInsert(index, clientid, {topic})

\* a reverse_index_remove that leaves the emptied set of filters in place
reverse_index_remove_keeps_empty_set(index, clientid, topic) ==
    IF clientid \in DOMAIN index
    THEN [index EXCEPT ![clientid] = @ \ {topic}]
    ELSE index

\* TopicsTable::reverse_index_remove
reverse_index_remove(index, clientid, topic) ==
    IF clientid \in DOMAIN index
    THEN LET set == index[clientid] \ {topic}
         IN IF set = {} THEN MapRemove(index, clientid)
            ELSE [index EXCEPT ![clientid] = set]
    ELSE index

\* a topic_remove that takes the client out of the subscribers map whatever
\* the filter ends with
topic_remove_from_subs_only(tree, clientid, topic) ==
    LET v == TopicsTable_visit(tree, topic, FALSE)
    IN IF v.at = <<>> THEN v.tree
       ELSE [v.tree EXCEPT ![v.at[1]] = remove_from_subs(@, clientid)]

\* TopicsTable::topic_remove
topic_remove(tree, clientid, topic) ==
    LET v == TopicsTable_visit(tree, topic, FALSE)
    IN IF v.at = <<>> THEN v.tree
       ELSE [v.tree EXCEPT ![v.at[1]] =
                IF v.is_hash THEN remove_from_hash(@, clientid)
                ELSE remove_from_subs(@, clientid)]

\* whether the tree holds `clientid` in the map that `topic` designates
has_tree_entry(tree, clientid, topic) ==
    LET v == TopicsTable_visit(tree, topic, FALSE)
    IN /\ v.at # <<>>
       /\ clientid \in DOMAIN (IF v.is_hash THEN tree[v.at[1]].hash_wildcard
                               ELSE tree[v.at[1]].subscribers)

\* the SubscriptionInfo the tree holds for `clientid` in that map
tree_entry(tree, clientid, topic) ==
    LET v == TopicsTable_visit(tree, topic, FALSE)
    IN IF v.is_hash THEN tree[v.at[1]].hash_wildcard[clientid]
       ELSE tree[v.at[1]].subscribers[clientid]

\* TopicsTable::subscribe: the tree first, then the reverse index
subscribe(table, clientid, topic, qos, flags) ==
    [root_block |-> topics_add(table.root_block, clientid, topic, qos, flags),
     reverse_index |-> reverse_index_add(table.reverse_index, clientid, topic)]

\* TopicsTable::unsubscribe: the reverse index first, then the tree
unsubscribe(table, clientid, topic) ==
    [root_block |-> topic_remove(table.root_block, clientid, topic),
     reverse_index |-> reverse_index_remove(table.reverse_index, clientid, topic)]

\* the loop of TopicsTable::unsubscribe_all over the removed set of filters
RECURSIVE topic_remove_each(_, _, _)
topic_remove_each(tree, clientid, topics) ==
    IF topics = {} THEN tree
    ELSE LET topic == CHOOSE t \in topics : TRUE
         IN topic_remove_each(topic_remove(tree, clientid, topic), clientid,
                              topics \ {topic})

\* TopicsTable::unsubscribe_all
unsubscribe_all(table, clientid) ==
    IF clientid \in DOMAIN table.reverse_index
    THEN [root_block |-> topic_remove_each(table.root_block, clientid,
                                           table.reverse_index[clientid]),
          reverse_index |-> MapRemove(table.reverse_index, clientid)]
    ELSE table

\* an Occupied arm with the comparison the other way round
keep_higher_qos_swapped(e, info) == IF e.qos > info.qos THEN info ELSE e

\* the Entry::Occupied arm of the collect loops: the entry already collected
\* is replaced only by one of a higher QoS
keep_higher_qos(e, info) == IF e.qos < info.qos THEN info ELSE e

\* the loop shared by collect_hash_wildcard and collect_subscribers
collect_map(map, collected) ==
    [c \in (DOMAIN collected) \cup (DOMAIN map) |->
        IF c \notin DOMAIN map THEN collected[c]
        ELSE IF c \notin DOMAIN collected THEN map[c]
        ELSE keep_higher_qos(collected[c], map[c])]

\* BlockInner::collect_hash_wildcard
collect_hash_wildcard(block, collected) == collect_map(block.hash_wildcard, collected)

\* BlockInner::collect_subscribers
collect_subscribers(block, collected) == collect_map(block.subscribers, collected)

\* a collect_subs that leaves out the hash_wildcard map of the block the
\* topic ends at
RECURSIVE collect_subs_without_last_hash(_, _, _, _)
collect_subs_without_last_hash(tree, self, collected, sections) ==
    IF sections # <<>>
    THEN LET s1 == collect_hash_wildcard(tree[self], collected)
             plus == Append(self, <<"+">>)
             s2 == IF plus \in DOMAIN tree
                   THEN collect_subs_without_last_hash(tree, plus, s1, Tail(sections))
                   ELSE s1
             sub == Append(self, Head(sections))
         IN IF sub \in DOMAIN tree
            THEN collect_subs_without_last_hash(tree, sub, s2, Tail(sections))
            ELSE s2
    ELSE collect_subscribers(tree[self], collected)

\* Block::collect_subs
RECURSIVE collect_subs(_, _, _, _)
collect_subs(tree, self, collected, sections) ==
    LET s1 == collect_hash_wildcard(tree[self], collected)
    IN IF sections # <<>>
       THEN LET plus == Append(self, <<"+">>)
                s2 == IF plus \in DOMAIN tree
                      THEN collect_subs(tree, plus, s1, Tail(sections))
                      ELSE s1
                sub == Append(self, Head(sections))
            IN IF sub \in DOMAIN tree
               THEN collect_subs(tree, sub, s2, Tail(sections))
               ELSE s2
       ELSE collect_subscribers(tree[self], s1)

\* TopicsTable::get_all_subscribed
get_all_subscribed(tree, topic) ==
    collect_subs(tree, RootPath, EmptyMap, topic_to_subtopics(topic))

(***************************************************************************)
(* The index interface called one operation at a time.                     *)
(***************************************************************************)
NoLookup == [op |-> "none"]
NoRoundtrip == [stage |-> "none"]
QoSLevels == 0..2
IndexFlags == {{}}

table == [root_block |-> root_block, reverse_index |-> reverse_index]

InitBrokerIdle ==
    /\ noise = FALSE
    /\ channel_permeability = "Permissive"
    /\ conn = [k \in {} |-> k]
    /\ rx = <<>>
    /\ clients = EmptyMap
    /\ incoming = <<>>
    /\ outgoing = <<>>
    /\ dispatcher = [pc |-> "recv"]
    /\ npackets = 0
    /\ granted_on = <<>>
    /\ handled = "nothing"
    /\ disconnected = {}


InitIndex ==
    /\ root_block = TopicsTable_new.root_block
    /\ reverse_index = TopicsTable_new.reverse_index
    /\ subs = NoLookup
    /\ subscribed = EmptyMap
    /\ roundtrip = NoRoundtrip
    /\ nsubscribes = 0
    /\ InitBrokerIdle
    /\ InitAuxIdle
    /\ calls = <<>>

\* a call of TopicsTable::subscribe
Subscribe(clientid, topic, qos, flags) ==
    /\ subs.op = "none"
    /\ nsubscribes < MaxSubscribes
    /\ LET t == subscribe(table, clientid, topic, qos, flags)
       IN /\ root_block' = t.root_block
          /\ reverse_index' = t.reverse_index
    /\ subscribed' = MapInsert(subscribed, <<clientid, topic>>, SubscriptionInfo(qos, flags))
    /\ roundtrip' = IF <<clientid, topic>> \in DOMAIN subscribed THEN NoRoundtrip
                    ELSE [stage |-> "subscribed", clientid |-> clientid, topic |-> topic,
                          before |-> table]
    /\ nsubscribes' = nsubscribes + 1
    /\ UNCHANGED <<subs, brokerVars, calls, auxVars>>

\* a call of TopicsTable::unsubscribe
Unsubscribe(clientid, topic) ==
    /\ subs.op = "none"
    /\ LET t == unsubscribe(table, clientid, topic)
       IN /\ root_block' = t.root_block
          /\ reverse_index' = t.reverse_index
    /\ subscribed' = MapRemove(subscribed, <<clientid, topic>>)
    /\ roundtrip' = IF /\ roundtrip.stage = "subscribed"
                       /\ roundtrip.clientid = clientid
                       /\ roundtrip.topic = topic
                    THEN [roundtrip EXCEPT !.stage = "unsubscribed"]
                    ELSE NoRoundtrip
    /\ UNCHANGED <<subs, nsubscribes, brokerVars, calls, auxVars>>

\* a call of TopicsTable::unsubscribe_all; the caller keeps the table as
\* it was before the call to compare
UnsubscribeAll(clientid) ==
    /\ subs.op = "none"
    /\ LET t == unsubscribe_all(table, clientid)
       IN /\ root_block' = t.root_block
          /\ reverse_index' = t.reverse_index
    /\ subscribed' = [k \in {x \in DOMAIN subscribed : x[1] # clientid} |-> subscribed[k]]
    /\ roundtrip' = NoRoundtrip
    /\ subs' = [op |-> "unsubscribe_all", clientid |-> clientid, before |-> table]
    /\ UNCHANGED <<nsubscribes, brokerVars, calls, auxVars>>

\* a call of TopicsTable::get_all_subscribed
GetAllSubscribed(topic) ==
    /\ subs.op = "none"
    /\ subs' = [op |-> "get_all_subscribed", topic |-> topic,
                result |-> get_all_subscribed(root_block, topic)]
    /\ roundtrip' = NoRoundtrip
    /\ UNCHANGED <<root_block, reverse_index, subscribed, nsubscribes, brokerVars, calls, auxVars>>

\* the caller drops the result it was looking at and goes on
Return ==
    /\ subs.op # "none"
    /\ subs' = NoLookup
    /\ UNCHANGED <<root_block, reverse_index, subscribed, roundtrip, nsubscribes,
                   brokerVars, calls, auxVars>>

NextIndex ==
    \/ \E c \in ClientIds, f \in Filters, q \in QoSLevels, fl \in IndexFlags :
          Subscribe(c, f, q, fl)
    \/ \E c \in ClientIds, f \in Filters : Unsubscribe(c, f)
    \/ \E c \in ClientIds : UnsubscribeAll(c)
    \/ \E t \in Topics : GetAllSubscribed(t)
    \/ Return

SpecIndex == InitIndex /\ [][NextIndex]_vars

(***************************************************************************)
(* Properties of the index interface.                                      *)
(***************************************************************************)
\* MQTT matching, level by level: a literal level matches itself, "+" any
\* one level, a trailing "#" the levels before it and everything below
RECURSIVE levels_match(_, _)
levels_match(fl, tl) ==
    IF fl = <<>> THEN tl = <<>>
    ELSE IF Head(fl) = <<"#">> THEN TRUE
    ELSE IF tl = <<>> THEN FALSE
    ELSE /\ Head(fl) = <<"+">> \/ Head(fl) = Head(tl)
         /\ levels_match(Tail(fl), Tail(tl))

filter_matches(filter, topic) == levels_match(split(filter), split(topic))

\* the filters `clientid` is subscribed to that match `topic`
matching_subscribed(clientid, topic) ==
    {k \in DOMAIN subscribed : k[1] = clientid /\ filter_matches(k[2], topic)}

Max(S) == CHOOSE x \in S : \A y \in S : y <= x

\* C1: the lookup for a topic without wildcards returns exactly the clients
\* that hold at least one subscription whose filter matches the topic, "+"
\* matching one level and a trailing "#" the parent and all below it
C1_LookupIsMatchSet ==
    subs.op = "get_all_subscribed" =>
        DOMAIN subs.result =
            {c \in ClientIds : matching_subscribed(c, subs.topic) # {}}

\* a lookup of "a" finds the subscriber of "a/#" and not the one of "+/a"
C1_Witness ==
    /\ subs.op = "get_all_subscribed"
    /\ subs.topic = <<"a">>
    /\ <<"c1", <<"a", "/", "#">>>> \in DOMAIN subscribed
    /\ <<"c2", <<"+", "/", "a">>>> \in DOMAIN subscribed
    /\ DOMAIN subs.result = {"c1"}

\* C4: unsubscribe_all(c) leaves c in no map of the tree and without an
\* entry in the reverse index, and the other clients' entries as they were
C4_UnsubscribeAllClearsClient ==
    subs.op = "unsubscribe_all" =>
        LET c == subs.clientid
            b == subs.before
        IN /\ c \notin DOMAIN reverse_index
           /\ \A p \in DOMAIN root_block :
                 /\ c \notin DOMAIN root_block[p].hash_wildcard
                 /\ c \notin DOMAIN root_block[p].subscribers
           /\ DOMAIN root_block = DOMAIN b.root_block
           /\ \A p \in DOMAIN root_block :
                 /\ MapRemove(root_block[p].hash_wildcard, c)
                        = MapRemove(b.root_block[p].hash_wildcard, c)
                 /\ MapRemove(root_block[p].subscribers, c)
                        = MapRemove(b.root_block[p].subscribers, c)
           /\ reverse_index = MapRemove(b.reverse_index, c)

\* unsubscribe_all of a client with a "#" filter and a plain one
C4_Witness ==
    /\ subs.op = "unsubscribe_all"
    /\ subs.clientid \in DOMAIN subs.before.reverse_index
    /\ \E f, g \in subs.before.reverse_index[subs.clientid] :
          f # g /\ f # <<>> /\ f[Len(f)] = "#" /\ ~is_wildcard(g)

\* C5: subscribe(c, f, q, flags) and then unsubscribe(c, f), where (c, f) was
\* not subscribed, leave the lookup of every topic and the reverse index as
\* they were before the subscribe
C5_SubscribeUnsubscribeRoundtrip ==
    roundtrip.stage = "unsubscribed" =>
        /\ reverse_index = roundtrip.before.reverse_index
        /\ \A t \in Topics :
              get_all_subscribed(root_block, t)
                  = get_all_subscribed(roundtrip.before.root_block, t)

\* a round trip that created blocks, by a client that had another filter
C5_Witness ==
    /\ roundtrip.stage = "unsubscribed"
    /\ DOMAIN root_block # DOMAIN roundtrip.before.root_block
    /\ roundtrip.clientid \in DOMAIN reverse_index

\* C6: for a client with several subscriptions matching the topic, the
\* lookup returns one entry, whose QoS is the highest among them
C6_LookupKeepsHighestQoS ==
    subs.op = "get_all_subscribed" =>
        \A c \in DOMAIN subs.result :
            subs.result[c].qos =
                Max({subscribed[k].qos : k \in matching_subscribed(c, subs.topic)})

\* a client whose two matching subscriptions differ in QoS
C6_Witness ==
    /\ subs.op = "get_all_subscribed"
    /\ \E c \in DOMAIN subs.result :
          \E k1, k2 \in matching_subscribed(c, subs.topic) :
              /\ subscribed[k1].qos < subscribed[k2].qos
              /\ subs.result[c].qos = subscribed[k2].qos

(***************************************************************************)
(* The broker: connections, their workers, the client manager and the      *)
(* dispatcher.                                                             *)
(***************************************************************************)
Conns == 1..MaxConns

\* the topics and the filters the clients put in their packets
PacketTopics == {<<"a">>, <<"a", "a">>}
PacketFilters == {<<"a">>, <<"#">>}

\* SubscriptionOptions as the clients set them: the granted-by-the-broker
\* ones and one of each kind the broker does not support
PlainOptions ==
    [qos |-> 0, no_local |-> FALSE, retain_as_published |-> FALSE,
     retain_handling |-> "DoNotSend"]
SubOptions ==
    {PlainOptions,
     [PlainOptions EXCEPT !.no_local = TRUE],
     [PlainOptions EXCEPT !.retain_as_published = TRUE],
     [PlainOptions EXCEPT !.qos = 1],
     [PlainOptions EXCEPT !.retain_handling = "Send"]}

\* the lists of entries a SUBSCRIBE carries: one entry with each kind of
\* options, and lists of MaxEntries entries of which one or none is supported
Entry(f, o) == <<f, o>>
EntryLists ==
    {<<Entry(<<"a">>, o)>> : o \in SubOptions}
    \cup {<<Entry(<<"#">>, PlainOptions)>>}
    \cup {[i \in 1..MaxEntries |->
             IF i = bad THEN Entry(<<"a">>, [PlainOptions EXCEPT !.qos = 1])
             ELSE Entry(<<"#">>, PlainOptions)] : bad \in 1..MaxEntries}
    \cup {[i \in 1..MaxEntries |->
             Entry(<<"a">>, [PlainOptions EXCEPT !.retain_handling = "Send"])]}

\* the SUBSCRIBE packets a client sends as its n-th packet
SubscribePackets(n) ==
    {[type |-> "SUBSCRIBE", packet_identifier |-> n, props |-> {}, topics |-> ts] :
        ts \in EntryLists}
    \cup {[type |-> "SUBSCRIBE", packet_identifier |-> n,
           props |-> {"SubscriptionIdentifier"},
           topics |-> <<Entry(<<"a">>, PlainOptions)>>]}

\* the PUBLISH packets a client sends as its n-th packet
PlainPublish(topic, n) ==
    [type |-> "PUBLISH", topic |-> topic, payload |-> n, qos |-> 0,
     dup |-> FALSE, retain |-> FALSE, props |-> {}]
PublishPackets(n) ==
    {PlainPublish(t, n) : t \in PacketTopics}
    \cup {[PlainPublish(<<"a">>, n) EXCEPT !.props = {"UserProperty"}],
          [PlainPublish(<<"a">>, n) EXCEPT !.qos = 1],
          [PlainPublish(<<"a">>, n) EXCEPT !.retain = TRUE],
          [PlainPublish(<<"a">>, n) EXCEPT !.props = {"TopicAlias"}]}

\* any other packet
OtherPackets == {[type |-> "PINGREQ"]}

ClientPackets(n) == SubscribePackets(n) \cup PublishPackets(n) \cup OtherPackets

\* Disconnect::new(ImplementationSpecificError).build()
Disconnect == [type |-> "DISCONNECT", reason_code |-> "ImplementationSpecificError"]

DispatcherRecv == [pc |-> "recv"]
DispatcherPanicked == [pc |-> "panicked"]

NoConn == [state |-> "none", clientid |-> "", encrypted |-> FALSE]

\* whether the worker of connection k still holds the receiver of its
\* outbound channel
receiver_alive(k) == conn[k].state \in {"handshaken", "running"}

\* Client::send on the handle of connection k
Client_send(out, k, packet) ==
    IF receiver_alive(k) THEN [out EXCEPT ![k] = Append(@, packet)] ELSE out

\* Dispatcher::unimplemented: the DISCONNECT goes to the sender's handle;
\* the unwrap panics when the directory has no such handle
unimplemented(client) ==
    IF client \in DOMAIN clients
    THEN /\ outgoing' = Client_send(outgoing, clients[client], Disconnect)
         /\ dispatcher' = DispatcherRecv
    ELSE /\ dispatcher' = DispatcherPanicked
         /\ UNCHANGED outgoing

\* checks of process_publish that let the RETAIN flag through
publish_supported_with_retain(publish) ==
    /\ publish.qos = 0
    /\ ~publish.dup
    /\ publish.props \cap {"MessageExpiryInterval", "TopicAlias",
                           "SubscriptionIdentifier"} = {}

\* the checks of process_publish on the QoS, the flags and the properties
publish_supported(publish) ==
    /\ publish.qos = 0
    /\ ~(publish.dup \/ publish.retain)
    /\ publish.props \cap {"MessageExpiryInterval", "TopicAlias",
                           "SubscriptionIdentifier"} = {}

\* the response process_publish builds: topic, payload and the properties
\* it passes through
publish_response(publish) ==
    [type |-> "PUBLISH", topic |-> publish.topic, payload |-> publish.payload,
     qos |-> 0, dup |-> FALSE, retain |-> FALSE,
     props |-> publish.props \cap {"PayloadFormatIndicator", "ResponseTopic",
                                   "CorrelationData", "UserProperty", "ContentType"}]

\* the delivery loop of process_publish over the subscribers in the order
\* the map yields them; a panic ends the loop where it is
RECURSIVE deliver(_, _, _, _, _, _)
deliver(order, found, client, strict_encryption, resp, out) ==
    IF order = <<>> THEN [outgoing |-> out, panicked |-> FALSE]
    ELSE LET target == Head(order)
             info == found[target]
             rest == Tail(order)
         IN IF target = client /\ "NO_LOCAL" \in info.flags
            THEN deliver(rest, found, client, strict_encryption, resp, out)
            ELSE IF "RETAIN_AS_PUBLISHED" \in info.flags
            THEN [outgoing |-> out, panicked |-> TRUE]
            ELSE IF target \notin DOMAIN clients
            THEN deliver(rest, found, client, strict_encryption, resp, out)
            ELSE IF noise /\ strict_encryption /\ ~conn[clients[target]].encrypted
            THEN deliver(rest, found, client, strict_encryption, resp, out)
            ELSE IF info.qos = 0
            THEN deliver(rest, found, client, strict_encryption, resp,
                         Client_send(out, clients[target], resp))
            ELSE [outgoing |-> out, panicked |-> TRUE]

\* the orders a map with the keys S can be iterated in
Orders(S) == {o \in [1..Cardinality(S) -> S] : \A i, j \in 1..Cardinality(S) :
                                                  i # j => o[i] # o[j]}

\* process_publish after the sender's handle was looked at
publish_checked(client, publish, strict_encryption) ==
    IF ~publish_supported(publish) THEN unimplemented(client)
    ELSE LET found == get_all_subscribed(root_block, publish.topic)
         IN \E order \in Orders(DOMAIN found) :
               LET d == deliver(order, found, client, strict_encryption,
                                publish_response(publish), outgoing)
               IN /\ outgoing' = d.outgoing
                  /\ dispatcher' = IF d.panicked THEN DispatcherPanicked
                                   ELSE DispatcherRecv

\* checks of process_subscribe that let every retain handling through
options_supported_any_retain_handling(options) == options.qos = 0

\* the checks of process_subscribe on the options of one entry
options_supported(options) ==
    options.qos = 0 /\ options.retain_handling = "DoNotSend"

\* the SubscriptionFlags process_subscribe derives from the options
subscription_flags(options) ==
    (IF options.no_local THEN {"NO_LOCAL"} ELSE {})
    \cup (IF options.retain_as_published THEN {"RETAIN_AS_PUBLISHED"} ELSE {})

\* the loop of process_subscribe over the entries of the packet: the table
\* after it and the reason codes of the SUBACK
RECURSIVE subscribe_entries(_, _, _, _)
subscribe_entries(tb, client, topics, codes) ==
    IF topics = <<>> THEN [table |-> tb, reason_codes |-> codes]
    ELSE LET topic == Head(topics)[1]
             options == Head(topics)[2]
         IN IF ~options_supported(options)
            THEN subscribe_entries(tb, client, Tail(topics),
                                   Append(codes, "ImplementationSpecificError"))
            ELSE subscribe_entries(
                    subscribe(tb, client, topic, options.qos, subscription_flags(options)),
                    client, Tail(topics), Append(codes, "GrantedQoS0"))

\* SubAck::new(ident) with its reason codes
SubAck(ident, codes) ==
    [type |-> "SUBACK", packet_identifier |-> ident, reason_codes |-> codes]

\* the filters of a SUBSCRIBE that the broker grants
granted_filters(topics) ==
    {topics[i][1] : i \in {j \in 1..Len(topics) : options_supported(topics[j][2])}}

InitBroker ==
    /\ noise \in BOOLEAN
    /\ channel_permeability \in (IF noise THEN {"Permissive", "Strict"} ELSE {"Permissive"})
    /\ conn = [k \in Conns |-> NoConn]
    /\ rx = <<>>
    /\ clients = EmptyMap
    /\ incoming = <<>>
    /\ outgoing = [k \in Conns |-> <<>>]
    /\ dispatcher = DispatcherRecv
    /\ npackets = 0
    /\ granted_on = [k \in Conns |-> {}]
    /\ handled = "nothing"
    /\ disconnected = {}

\* a listener accepts connection k and its handshake ends well
\* (_connect_client): the worker is handed to the manager
connect_client(k, clientid, encrypted) ==
    /\ conn[k].state = "none"
    /\ \A j \in 1..(k - 1) : conn[j].state # "none"
    /\ conn' = [conn EXCEPT ![k] = [state |-> "handshaken", clientid |-> clientid,
                                    encrypted |-> encrypted]]
    /\ rx' = Append(rx, k)
    /\ UNCHANGED <<clients, incoming, outgoing, dispatcher, npackets, granted_on,
                   root_block, reverse_index,
                   apiVars, cfgVars, calls, handled, disconnected, auxVars>>

\* ClientManager::process_new_worker
process_new_worker ==
    /\ rx # <<>>
    /\ LET k == Head(rx)
       IN /\ clients' = MapInsert(clients, conn[k].clientid, k)
          /\ conn' = [conn EXCEPT ![k].state = "running"]
    /\ rx' = Tail(rx)
    /\ UNCHANGED <<incoming, outgoing, dispatcher, npackets, granted_on,
                   root_block, reverse_index,
                   apiVars, cfgVars, calls, handled, disconnected, auxVars>>

\* ClientWorker::listen, the branch of a packet read from the connection:
\* the packet goes to the dispatcher with the sender's id; the worker ends
\* when the dispatcher's channel is closed
listen_recv(k, packet) ==
    /\ conn[k].state = "running"
    /\ npackets < MaxPackets
    /\ npackets' = npackets + 1
    /\ IF dispatcher.pc = "panicked"
       THEN /\ conn' = [conn EXCEPT ![k].state = "finished"]
            /\ outgoing' = [outgoing EXCEPT ![k] = <<>>]
            /\ granted_on' = [granted_on EXCEPT ![k] = {}]
            /\ disconnected' = disconnected \ {k}
            /\ UNCHANGED incoming
       ELSE /\ Len(incoming) < QueueLen
            /\ incoming' = Append(incoming, [senderid |-> conn[k].clientid,
                                             packet |-> packet])
            /\ UNCHANGED <<conn, outgoing, granted_on, disconnected>>
    /\ UNCHANGED <<rx, clients, dispatcher, root_block, reverse_index,
                   apiVars, cfgVars, calls, handled, auxVars>>

\* ClientWorker::listen, the branch of a packet taken from the outbound
\* channel: it is written to the connection
listen_send(k) ==
    /\ conn[k].state = "running"
    /\ outgoing[k] # <<>>
    /\ outgoing' = [outgoing EXCEPT ![k] = Tail(@)]
    /\ disconnected' = IF Head(outgoing[k]).type = "DISCONNECT"
                       THEN disconnected \cup {k} ELSE disconnected
    /\ UNCHANGED <<conn, rx, clients, incoming, dispatcher, npackets, granted_on,
                   root_block, reverse_index, apiVars, cfgVars, calls, handled, auxVars>>

\* ClientWorker::listen fails on the connection (a read or write error, or
\* bytes that do not parse): listen_forever breaks and run returns
listen_error(k) ==
    /\ conn[k].state = "running"
    /\ conn' = [conn EXCEPT ![k].state = "finished"]
    /\ outgoing' = [outgoing EXCEPT ![k] = <<>>]
    /\ granted_on' = [granted_on EXCEPT ![k] = {}]
    /\ disconnected' = disconnected \ {k}
    /\ UNCHANGED <<rx, clients, incoming, dispatcher, npackets,
                   root_block, reverse_index,
                   apiVars, cfgVars, calls, handled, auxVars>>

\* ClientManager::process_retiring_worker
process_retiring_worker(k) ==
    /\ conn[k].state = "finished"
    /\ conn' = [conn EXCEPT ![k].state = "retired"]
    /\ clients' = MapRemove(clients, conn[k].clientid)
    /\ UNCHANGED <<rx, incoming, outgoing, dispatcher, npackets, granted_on,
                   root_block, reverse_index,
                   apiVars, cfgVars, calls, handled, disconnected, auxVars>>

\* Dispatcher::process_publish.  With the noise feature the sender's handle
\* is looked at first, in a critical section of its own.
process_publish ==
    /\ dispatcher.pc = "recv"
    /\ incoming # <<>>
    /\ Head(incoming).packet.type = "PUBLISH"
    /\ incoming' = Tail(incoming)
    /\ LET client == Head(incoming).senderid
           publish == Head(incoming).packet
       IN IF noise
          THEN /\ IF client \in DOMAIN clients
                  THEN /\ dispatcher' =
                            [pc |-> "publish", client |-> client, publish |-> publish,
                             strict_encryption |->
                                 conn[clients[client]].encrypted
                                 /\ channel_permeability = "Strict"]
                       /\ UNCHANGED handled
                  ELSE /\ dispatcher' = DispatcherRecv
                       /\ handled' = "publish_dropped"
               /\ UNCHANGED outgoing
          ELSE /\ publish_checked(client, publish, FALSE)
               /\ handled' = IF publish_supported(publish) THEN "publish"
                             ELSE "publish_rejected"
    /\ UNCHANGED <<conn, rx, clients, npackets, granted_on, root_block, reverse_index,
                   apiVars, cfgVars, calls, disconnected, auxVars>>

\* the rest of process_publish in a build with the noise feature
process_publish_checked ==
    /\ dispatcher.pc = "publish"
    /\ publish_checked(dispatcher.client, dispatcher.publish, dispatcher.strict_encryption)
    /\ handled' = IF publish_supported(dispatcher.publish) THEN "publish"
                  ELSE "publish_rejected"
    /\ UNCHANGED <<conn, rx, clients, incoming, npackets, granted_on, root_block, reverse_index,
                   apiVars, cfgVars, calls, disconnected, auxVars>>

\* Dispatcher::process_subscribe
process_subscribe ==
    /\ dispatcher.pc = "recv"
    /\ incoming # <<>>
    /\ Head(incoming).packet.type = "SUBSCRIBE"
    /\ incoming' = Tail(incoming)
    /\ LET client == Head(incoming).senderid
           sub == Head(incoming).packet
           ident == sub.packet_identifier
       IN IF "SubscriptionIdentifier" \in sub.props
          THEN /\ unimplemented(client)
               /\ handled' = "subscribe_rejected"
               /\ UNCHANGED <<root_block, reverse_index, granted_on>>
          ELSE LET r == subscribe_entries(table, client, sub.topics, <<>>)
               IN /\ root_block' = r.table.root_block
                  /\ reverse_index' = r.table.reverse_index
                  /\ outgoing' = IF client \in DOMAIN clients
                                 THEN Client_send(outgoing, clients[client],
                                                  SubAck(ident, r.reason_codes))
                                 ELSE outgoing
                  /\ granted_on' =
                        IF client \in DOMAIN clients /\ receiver_alive(clients[client])
                        THEN [granted_on EXCEPT ![clients[client]] =
                                 @ \cup granted_filters(sub.topics)]
                        ELSE granted_on
                  /\ handled' = "subscribe"
                  /\ dispatcher' = DispatcherRecv
    /\ UNCHANGED <<conn, rx, clients, npackets, apiVars, cfgVars, calls, disconnected, auxVars>>

\* Dispatcher::process_packet on a packet that is neither a PUBLISH nor a
\* SUBSCRIBE
process_other ==
    /\ dispatcher.pc = "recv"
    /\ incoming # <<>>
    /\ Head(incoming).packet.type \notin {"PUBLISH", "SUBSCRIBE"}
    /\ incoming' = Tail(incoming)
    /\ unimplemented(Head(incoming).senderid)
    /\ handled' = "other"
    /\ UNCHANGED <<conn, rx, clients, npackets, granted_on, root_block, reverse_index,
                   apiVars, cfgVars, calls, disconnected, auxVars>>

InitIndexIdle ==
    /\ subs = NoLookup
    /\ subscribed = EmptyMap
    /\ roundtrip = NoRoundtrip
    /\ nsubscribes = 0

Init ==
    /\ root_block = TopicsTable_new.root_block
    /\ reverse_index = TopicsTable_new.reverse_index
    /\ InitIndexIdle
    /\ InitBroker
    /\ InitAuxIdle
    /\ calls = <<>>

Next ==
    \/ \E k \in Conns, c \in ClientIds, e \in BOOLEAN :
          /\ (k = 1 => c = "c1")
          /\ e = (noise /\ k = MaxConns)
          /\ connect_client(k, c, e)
    \/ process_new_worker
    \/ \E k \in Conns : \E packet \in ClientPackets(npackets + 1) :
          listen_recv(k, packet)
    \/ \E k \in Conns : listen_send(k)
    \/ \E k \in Conns : listen_error(k)
    \/ \E k \in Conns : process_retiring_worker(k)
    \/ process_publish
    \/ process_publish_checked
    \/ process_subscribe
    \/ process_other

Spec == Init /\ [][Next]_vars


(***************************************************************************)
(* The index called by concurrent tasks.  A call of subscribe, unsubscribe *)
(* or unsubscribe_all is a sequence of awaited steps, each under locks of  *)
(* its own (topics_add, reverse_index_add, reverse_index_remove,           *)
(* topic_remove), and other tasks run between the steps.                   *)
(***************************************************************************)
\* number of tasks that call the index
MaxCallers == 2
Callers == 1..MaxCallers

Idle == [op |-> "idle"]

InitConc ==
    /\ root_block = TopicsTable_new.root_block
    /\ reverse_index = TopicsTable_new.reverse_index
    /\ calls = [p \in Callers |-> Idle]
    /\ InitIndexIdle
    /\ InitBrokerIdle
    /\ InitAuxIdle

\* TopicsTable::subscribe, first step: topics_add
subscribe_topics_add(p, clientid, topic) ==
    /\ calls[p] = Idle
    /\ root_block' = topics_add(root_block, clientid, topic, 0, {})
    /\ calls' = [calls EXCEPT ![p] = [op |-> "subscribe", clientid |-> clientid,
                                      topic |-> topic]]
    /\ UNCHANGED <<reverse_index, apiVars, brokerVars, auxVars>>

\* TopicsTable::subscribe, second step: reverse_index_add
subscribe_reverse_index_add(p) ==
    /\ calls[p].op = "subscribe"
    /\ reverse_index' = reverse_index_add(reverse_index, calls[p].clientid, calls[p].topic)
    /\ calls' = [calls EXCEPT ![p] = Idle]
    /\ UNCHANGED <<root_block, apiVars, brokerVars, auxVars>>

\* TopicsTable::unsubscribe, first step: reverse_index_remove
unsubscribe_reverse_index_remove(p, clientid, topic) ==
    /\ calls[p] = Idle
    /\ reverse_index' = reverse_index_remove(reverse_index, clientid, topic)
    /\ calls' = [calls EXCEPT ![p] = [op |-> "unsubscribe", clientid |-> clientid,
                                      topic |-> topic]]
    /\ UNCHANGED <<root_block, apiVars, brokerVars, auxVars>>

\* TopicsTable::unsubscribe, second step: topic_remove
unsubscribe_topic_remove(p) ==
    /\ calls[p].op = "unsubscribe"
    /\ root_block' = topic_remove(root_block, calls[p].clientid, calls[p].topic)
    /\ calls' = [calls EXCEPT ![p] = Idle]
    /\ UNCHANGED <<reverse_index, apiVars, brokerVars, auxVars>>

\* TopicsTable::unsubscribe_all, first step: reverse_index_remove_all takes
\* the client's set of filters out of the reverse index
unsubscribe_all_reverse_index_remove_all(p, clientid) ==
    /\ calls[p] = Idle
    /\ reverse_index' = MapRemove(reverse_index, clientid)
    /\ calls' = [calls EXCEPT ![p] =
                    IF clientid \in DOMAIN reverse_index
                    THEN [op |-> "unsubscribe_all", clientid |-> clientid,
                          topics |-> reverse_index[clientid]]
                    ELSE Idle]
    /\ UNCHANGED <<root_block, apiVars, brokerVars, auxVars>>

\* TopicsTable::unsubscribe_all, one turn of its loop: topic_remove of one
\* of the filters taken
unsubscribe_all_topic_remove(p, topic) ==
    /\ calls[p].op = "unsubscribe_all"
    /\ topic \in calls[p].topics
    /\ root_block' = topic_remove(root_block, calls[p].clientid, topic)
    /\ calls' = [calls EXCEPT ![p] =
                    IF calls[p].topics = {topic} THEN Idle
                    ELSE [calls[p] EXCEPT !.topics = @ \ {topic}]]
    /\ UNCHANGED <<reverse_index, apiVars, brokerVars, auxVars>>

\* TopicsTable::get_all_subscribed
get_all_subscribed_call(p, topic) ==
    /\ calls[p] = Idle
    /\ calls' = [calls EXCEPT ![p] =
                    [op |-> "get_all_subscribed", topic |-> topic,
                     result |-> get_all_subscribed(root_block, topic)]]
    /\ UNCHANGED <<root_block, reverse_index, apiVars, brokerVars, auxVars>>

\* the caller of get_all_subscribed goes on with its result
get_all_subscribed_return(p) ==
    /\ calls[p].op = "get_all_subscribed"
    /\ calls' = [calls EXCEPT ![p] = Idle]
    /\ UNCHANGED <<root_block, reverse_index, apiVars, brokerVars, auxVars>>

NextConc ==
    \/ \E p \in Callers, c \in ClientIds, f \in PacketFilters : subscribe_topics_add(p, c, f)
    \/ \E p \in Callers : subscribe_reverse_index_add(p)
    \/ \E p \in Callers, c \in ClientIds, f \in PacketFilters :
          unsubscribe_reverse_index_remove(p, c, f)
    \/ \E p \in Callers : unsubscribe_topic_remove(p)
    \/ \E p \in Callers, c \in ClientIds : unsubscribe_all_reverse_index_remove_all(p, c)
    \/ \E p \in Callers, f \in PacketFilters : unsubscribe_all_topic_remove(p, f)
    \/ \E p \in Callers, t \in PacketTopics : get_all_subscribed_call(p, t)
    \/ \E p \in Callers : get_all_subscribed_return(p)

SpecConc == InitConc /\ [][NextConc]_vars

\* C3: in every reachable state of the index, the states between the steps
\* of subscribe, unsubscribe and unsubscribe_all included, every
\* (clientid, filter) pair of the reverse index has an entry for the client
\* in the map of the tree that the filter designates
C3_ReverseIndexHasTreeEntries ==
    \A c \in DOMAIN reverse_index :
        \A f \in reverse_index[c] : has_tree_entry(root_block, c, f)

(***************************************************************************)
(* Properties of the broker.                                               *)
(***************************************************************************)
\* a PUBLISH the dispatcher accepts: QoS 0, neither DUP nor RETAIN, none of
\* the properties it does not support
Accepted(publish) ==
    /\ publish.qos = 0
    /\ ~publish.dup
    /\ ~publish.retain
    /\ "MessageExpiryInterval" \notin publish.props
    /\ "TopicAlias" \notin publish.props
    /\ "SubscriptionIdentifier" \notin publish.props

\* the dispatcher takes a packet of this type from its channel in the step
Dequeues(type) ==
    /\ dispatcher.pc = "recv"
    /\ incoming # <<>>
    /\ Head(incoming).packet.type = type
    /\ incoming' = Tail(incoming)

\* the step in which the dispatcher is done with a PUBLISH, its sender and
\* the packet
PublishDone ==
    \/ dispatcher.pc = "publish" /\ dispatcher'.pc # "publish"
    \/ Dequeues("PUBLISH") /\ dispatcher'.pc # "publish"
done_client == IF dispatcher.pc = "publish" THEN dispatcher.client
               ELSE Head(incoming).senderid
done_publish == IF dispatcher.pc = "publish" THEN dispatcher.publish
                ELSE Head(incoming).packet

\* the step in which the dispatcher finds the sender of a PUBLISH gone and
\* drops the packet (builds with the noise feature)
PublishDropped == noise /\ Dequeues("PUBLISH") /\ dispatcher'.pc # "publish"

\* the filters of `clientid` in the index that match `topic`
matching_filters(clientid, topic) ==
    IF clientid \in DOMAIN reverse_index
    THEN {f \in reverse_index[clientid] : filter_matches(f, topic)}
    ELSE {}

\* the step puts one packet at the end of the channel of connection k
Enqueued(k) ==
    /\ Len(outgoing'[k]) = Len(outgoing[k]) + 1
    /\ SubSeq(outgoing'[k], 1, Len(outgoing[k])) = outgoing[k]
enqueued(k) == outgoing'[k][Len(outgoing'[k])]

\* the step puts one copy of `publish` at the end of the channel of k
EnqueuedCopy(k, publish) ==
    /\ Enqueued(k)
    /\ enqueued(k).type = "PUBLISH"
    /\ enqueued(k).topic = publish.topic
    /\ enqueued(k).payload = publish.payload

\* the Strict skip: the sender came over an encrypted connection and the
\* connection k did not
strict_skip(clientid, k) ==
    /\ noise
    /\ channel_permeability = "Strict"
    /\ ~conn[k].encrypted
    /\ \E j \in Conns : conn[j].clientid = clientid /\ conn[j].encrypted

\* the NO_LOCAL skip: a matching subscription of the sender's has NO_LOCAL
no_local_skip(clientid, topic) ==
    \E f \in matching_filters(clientid, topic) :
        /\ has_tree_entry(root_block, clientid, f)
        /\ "NO_LOCAL" \in tree_entry(root_block, clientid, f).flags

\* C2: for every PUBLISH the dispatcher accepts, one PUBLISH with its topic
\* and payload is enqueued on the channel of each client that is in the
\* directory and has a subscription matching the topic (the NO_LOCAL and
\* Strict skips, and the clients whose worker has ended, left open), and
\* nothing is enqueued for a client without a matching subscription
C2_MatchingSubscribersGetOneCopy ==
    [][(PublishDone /\ ~PublishDropped /\ Accepted(done_publish)) =>
        \A k \in Conns :
            LET topic == done_publish.topic
                holders == {c \in DOMAIN clients :
                               clients[c] = k /\ matching_filters(c, topic) # {}}
            IN IF holders = {} THEN outgoing'[k] = outgoing[k]
               ELSE IF \/ ~receiver_alive(k)
                       \/ strict_skip(done_client, k)
                       \/ done_client \in holders /\ no_local_skip(done_client, topic)
               THEN outgoing'[k] = outgoing[k] \/ EnqueuedCopy(k, done_publish)
               ELSE EnqueuedCopy(k, done_publish)]_vars

\* C7: a PUBLISH is put on the channel of a connection only after a SUBACK
\* that granted a filter matching its topic was put on that channel
C7_SubackBeforePublish ==
    [][\A k \in Conns :
          (Enqueued(k) /\ enqueued(k).type = "PUBLISH") =>
              \E f \in granted_on[k] : filter_matches(f, enqueued(k).topic)]_vars

\* whether the options of entry i of a SUBSCRIBE pass validation
passes_validation(sub, i) ==
    sub.topics[i][2].qos = 0 /\ sub.topics[i][2].retain_handling = "DoNotSend"

\* the SUBACK that answers a SUBSCRIBE: its packet identifier and one reason
\* code per entry, in the order of the entries
expected_suback(sub) ==
    [type |-> "SUBACK", packet_identifier |-> sub.packet_identifier,
     reason_codes |-> [i \in 1..Len(sub.topics) |->
                          IF passes_validation(sub, i) THEN "GrantedQoS0"
                          ELSE "ImplementationSpecificError"]]

\* whether the index holds the pair (clientid, filter)
in_index(tree, index, clientid, filter) ==
    /\ clientid \in DOMAIN index
    /\ filter \in index[clientid]
    /\ has_tree_entry(tree, clientid, filter)

C9_RejectedPublishDisconnectsSender ==
    [][(PublishDone /\ ~Accepted(done_publish)) =>
        /\ \E k \in Conns :
              /\ conn[k].clientid = done_client
              /\ Enqueued(k)
              /\ enqueued(k) = Disconnect
        /\ \A k \in Conns : ~EnqueuedCopy(k, done_publish)]_vars

\* C9, amended: when the dispatcher is done with a PUBLISH it rejects, the
\* PUBLISH is on no channel; a DISCONNECT with ImplementationSpecificError
\* was enqueued on the channel the directory holds under the sender's
\* clientid if it holds one whose worker still runs, and nothing was
\* enqueued if it holds none
C9_RejectedPublishDisconnectsSenderInDirectory ==
    [][(PublishDone /\ ~Accepted(done_publish)) =>
        LET open == /\ done_client \in DOMAIN clients
                    /\ receiver_alive(clients[done_client])
        IN \A k \in Conns :
              outgoing'[k] = IF open /\ clients[done_client] = k
                             THEN Append(outgoing[k], Disconnect)
                             ELSE outgoing[k]]_vars

\* the dispatcher has rejected a PUBLISH and its sender's channel ends with
\* the DISCONNECT
C9_Witness ==
    /\ handled = "publish_rejected"
    /\ dispatcher.pc = "recv"
    /\ \E c \in DOMAIN clients :
          /\ conn[clients[c]].state = "running"
          /\ outgoing[clients[c]] # <<>>
          /\ outgoing[clients[c]][Len(outgoing[clients[c]])] = Disconnect

\* C10: when the sender of an accepted PUBLISH holds a matching subscription
\* made with NO_LOCAL, the PUBLISH is not enqueued on the sender's own
\* channel (taken here for a sender all of whose matching subscriptions
\* have NO_LOCAL), and every other matching subscriber that is in the
\* directory with a running worker, the Strict skip apart, receives it
C10_NoLocalSkipsOnlyTheSender ==
    [][(/\ PublishDone /\ ~PublishDropped /\ Accepted(done_publish)
        /\ no_local_skip(done_client, done_publish.topic)) =>
        LET topic == done_publish.topic
        IN /\ (/\ done_client \in DOMAIN clients
               /\ \A f \in matching_filters(done_client, topic) :
                     "NO_LOCAL" \in tree_entry(root_block, done_client, f).flags)
                  => outgoing'[clients[done_client]] = outgoing[clients[done_client]]
           /\ \A c \in DOMAIN clients :
                 (/\ c # done_client
                  /\ matching_filters(c, topic) # {}
                  /\ receiver_alive(clients[c])
                  /\ ~strict_skip(done_client, clients[c]))
                     => EnqueuedCopy(clients[c], done_publish)]_vars

\* the step puts one PacketInfo at the end of the dispatcher's channel
Forwarded == Len(incoming') = Len(incoming) + 1
forwarded == incoming'[Len(incoming')]

\* C11: once the worker of a connection has written the DISCONNECT the
\* dispatcher enqueued for it, the connection is over: no packet is
\* forwarded to the dispatcher under a clientid all of whose running
\* connections have been sent a DISCONNECT
C11_NoForwardAfterDisconnect ==
    [][Forwarded =>
          \E k \in Conns :
              /\ conn[k].state = "running"
              /\ conn[k].clientid = forwarded.senderid
              /\ k \notin disconnected]_vars

\* C12: the dispatcher does not stop on a packet whose sender is in the
\* directory, whatever the options of the subscriptions in the index and
\* the flags of the packet
C12_NoPacketStopsTheDispatcher ==
    [][(dispatcher.pc # "panicked" /\ dispatcher'.pc = "panicked") =>
          done_client \notin DOMAIN clients]_vars

\* C19: once the manager is done with the workers that ended and the
\* dispatcher with the packets they had sent, the index holds subscriptions
\* only for the clientids of connections whose worker has not been retired
C19_RetiredClientsHaveNoSubscriptions ==
    \A c \in DOMAIN reverse_index :
        \/ \E k \in Conns :
              /\ conn[k].clientid = c
              /\ conn[k].state \in {"handshaken", "running", "finished"}
        \/ \E i \in 1..Len(incoming) : incoming[i].senderid = c

(***************************************************************************)
(* The CONNECT handshake: the task a listener spawns for each accepted     *)
(* connection (_connect_client), ClientWorker::connect and                 *)
(* process_connect, and the property values they convert.                  *)
(***************************************************************************)
\* MqttServerConfig.max_packet_size, in bytes
MaxPacketSize == 4

\* the names of the long-running tasks
Task(kind, k) == <<kind, k>>
HandshakeTask(k) == Task("handshake", k)
\* the tasks other than handshakes that wait on the shutdown notification
\* (listeners, manager, dispatcher, workers), taken as one while the
\* handshakes are looked at
OtherTasks == Task("other", 0)

\* Property::auxiliary_data: the type of the value of a property
auxiliary_data(property) ==
    CASE property \in {"SessionExpiryInterval", "MaximumPacketSize"} -> "FourBytesInt"
      [] property \in {"ReceiveMaximum", "TopicAliasMaximum"} -> "TwoBytesInt"
      [] property \in {"RequestProblemInformation", "RequestResponseInformation"} -> "Bool"
      [] property = "UserProperty" -> "String"
      [] property = "AuthenticationMethod" -> "String"
      [] property = "AuthenticationData" -> "Data"
      [] property = "PayloadFormatIndicator" -> "Byte"
      [] property = "SubscriptionIdentifier" -> "VarInt"
      [] property = "ReasonString" -> "String"

\* MqttPropValue::deserialize: the value of a property of a decoded packet
\* has the type auxiliary_data gives for the property
MqttPropValue(property, v) == [type |-> auxiliary_data(property), value |-> v]

\* Option::None and Option::Some
None == [some |-> FALSE]
Some(v) == [some |-> TRUE, value |-> v]

\* MqttPropValue::into_bool, into_u16, into_u32, into_str_pair
into_bool(v) == IF v.type = "Byte" THEN Some(v.value = 1) ELSE None
into_u16(v) == IF v.type = "TwoBytesInt" THEN Some(v.value) ELSE None
into_u32(v) == IF v.type \in {"VarInt", "FourBytesInt"} THEN Some(v.value) ELSE None
into_str_pair(v) == IF v.type = "StringPair" THEN Some(v.value) ELSE None

\* Client::new: the client state of a worker before its handshake
Client_new(encrypted) ==
    [clientid |-> "", session_expirary |-> 0, recv_max |-> 65535,
     max_packet_size |-> MaxPacketSize, topic_alias_max |-> 0,
     response_info |-> FALSE, problem_info |-> TRUE, encrypted |-> encrypted]

\* the properties process_connect takes into the client state or ignores
AcceptedProperties ==
    {"SessionExpiryInterval", "ReceiveMaximum", "MaximumPacketSize",
     "TopicAliasMaximum", "RequestResponseInformation",
     "RequestProblemInformation", "UserProperty"}
AuthProperties == {"AuthenticationMethod", "AuthenticationData"}

\* the CONNECT packets the clients send: props maps each property of the
\* packet to its value
PlainConnect ==
    [type |-> "CONNECT", clientid |-> "c1", clean_start |-> TRUE,
     username |-> FALSE, password |-> FALSE, will |-> FALSE, props |-> <<>>]
WithProps(connect, properties) ==
    [connect EXCEPT !.props = [q \in properties |-> MqttPropValue(q, 1)]]
ConnectPackets ==
    {PlainConnect,
     [PlainConnect EXCEPT !.clientid = ""],
     [PlainConnect EXCEPT !.clean_start = FALSE],
     [PlainConnect EXCEPT !.username = TRUE],
     [PlainConnect EXCEPT !.password = TRUE],
     [PlainConnect EXCEPT !.will = TRUE]}
    \cup {WithProps(PlainConnect, {q}) : q \in AcceptedProperties \cup AuthProperties}
    \cup {WithProps(PlainConnect, {"SessionExpiryInterval", "ReceiveMaximum",
                                   "MaximumPacketSize", "TopicAliasMaximum"}),
          WithProps(PlainConnect, {"AuthenticationMethod", "RequestResponseInformation"})}

\* what conn.recv() gives a handshake: a CONNECT, another packet, an error
FirstPackets ==
    ConnectPackets \cup {[type |-> "PINGREQ"], [type |-> "Err", error |-> "Io"]}

\* ConnAck::new() with its reason code; a Success CONNACK carries the
\* AssignedClientIdentifier when the server chose the clientid
ConnAck(reason_code, assigned) ==
    [type |-> "CONNACK", reason_code |-> reason_code, assigned |-> assigned]

\* the loop of process_connect over the properties, in the order the map
\* yields them: the client state after it, and whether it ended in
\* unimplemented() or in the panic of an unwrap on None.  The value of a
\* UserProperty is converted only when the warning is enabled.
RECURSIVE connect_props(_, _, _, _)
connect_props(order, props, internals, warn_enabled) ==
    IF order = <<>> THEN [kind |-> "done", internals |-> internals]
    ELSE LET k == Head(order)
             v == props[k]
             rest == Tail(order)
             panic == [kind |-> "panic", internals |-> internals]
         IN CASE k = "SessionExpiryInterval" ->
                   IF into_u32(v).some
                   THEN connect_props(rest, props,
                           [internals EXCEPT !.session_expirary = into_u32(v).value],
                           warn_enabled)
                   ELSE panic
              [] k = "ReceiveMaximum" ->
                   IF into_u16(v).some
                   THEN connect_props(rest, props,
                           [internals EXCEPT !.recv_max = into_u16(v).value], warn_enabled)
                   ELSE panic
              [] k = "MaximumPacketSize" ->
                   IF into_u32(v).some
                   THEN connect_props(rest, props,
                           [internals EXCEPT !.max_packet_size =
                               IF @ < into_u32(v).value THEN @ ELSE into_u32(v).value],
                           warn_enabled)
                   ELSE panic
              [] k = "TopicAliasMaximum" ->
                   IF into_u16(v).some
                   THEN connect_props(rest, props,
                           [internals EXCEPT !.topic_alias_max = into_u16(v).value],
                           warn_enabled)
                   ELSE panic
              [] k = "RequestResponseInformation" ->
                   IF into_bool(v).some
                   THEN connect_props(rest, props,
                           [internals EXCEPT !.response_info = into_bool(v).value],
                           warn_enabled)
                   ELSE panic
              [] k = "RequestProblemInformation" ->
                   IF into_bool(v).some
                   THEN connect_props(rest, props,
                           [internals EXCEPT !.problem_info = into_bool(v).value],
                           warn_enabled)
                   ELSE panic
              [] k = "UserProperty" ->
                   IF warn_enabled /\ ~into_str_pair(v).some THEN panic
                   ELSE connect_props(rest, props, internals, warn_enabled)
              [] k \in AuthProperties ->
                   [kind |-> "unimplemented", internals |-> internals]

\* ClientWorker::unimplemented: the CONNACK it sends and the error it
\* returns once the CONNACK is written
connect_unimplemented(internals) ==
    [kind |-> "send", internals |-> internals,
     connack |-> ConnAck("ImplementationSpecificError", FALSE),
     result |-> "Unimplemented"]

\* ClientWorker::process_connect up to the write of its CONNACK
process_connect(connect, internals, order, warn_enabled) ==
    IF connect.username \/ connect.password \/ connect.will \/ ~connect.clean_start
    THEN connect_unimplemented(internals)
    ELSE LET r == connect_props(order, connect.props, internals, warn_enabled)
         IN CASE r.kind = "panic" -> [kind |-> "panic", internals |-> r.internals]
              [] r.kind = "unimplemented" -> connect_unimplemented(r.internals)
              [] r.kind = "done" ->
                   [kind |-> "send",
                    internals |-> [r.internals EXCEPT !.clientid =
                                      IF connect.clientid = "" THEN "uuid"
                                      ELSE connect.clientid],
                    connack |-> ConnAck("Success", connect.clientid = ""),
                    result |-> "Ok"]

\* a connection no listener has accepted yet
NoHandshakeTask ==
    [pc |-> "none", first |-> [type |-> "none"], internals |-> Client_new(FALSE),
     connack |-> [type |-> "none"], result |-> "none", sent |-> <<>>,
     state |-> "none", error |-> "none"]

\* the handshake tasks that wait in the select of _connect_client
in_select(k) == handshake[k].pc \in {"select", "sending"}

InitHandshake ==
    /\ root_block = TopicsTable_new.root_block
    /\ reverse_index = TopicsTable_new.reverse_index
    /\ InitIndexIdle
    /\ calls = <<>>
    /\ noise = FALSE
    /\ channel_permeability = "Permissive"
    /\ conn = [k \in Conns |-> NoConn]
    /\ rx = <<>>
    /\ clients = EmptyMap
    /\ incoming = <<>>
    /\ outgoing = [k \in Conns |-> <<>>]
    /\ dispatcher = DispatcherRecv
    /\ npackets = 0
    /\ granted_on = [k \in Conns |-> {}]
    /\ handled = "nothing"
    /\ disconnected = {}
    /\ handshake = [k \in Conns |-> NoHandshakeTask]
    /\ shutdown = NoShutdown
    /\ tasks = NoTasks
    /\ reader = NoReader
    /\ server = NoServer
    /\ codec = NoCodec

\* what no step of a handshake task changes
handshakeRest == <<root_block, reverse_index, apiVars, cfgVars, calls, clients,
                   incoming, outgoing, dispatcher, npackets, granted_on, handled,
                   disconnected, tasks, reader, server, codec>>

\* MqttListener::listen: a connection is accepted, its worker is made and
\* the handshake task is spawned; the task waits in its select
MqttListener_listen(k) ==
    /\ handshake[k].pc = "none"
    /\ \A j \in 1..(k - 1) : handshake[j].pc # "none"
    /\ handshake' = [handshake EXCEPT ![k].pc = "select"]
    /\ UNCHANGED <<conn, rx, shutdown, handshakeRest>>

\* an after_select in which an error falls through to the hand-over
after_select_err_falls_through(k, state, error, h) ==
    /\ handshake' = [handshake EXCEPT ![k] =
                        [h EXCEPT !.pc = "handed", !.state = state, !.error = error]]
    /\ rx' = Append(rx, k)
    /\ conn' = [conn EXCEPT ![k] = [state |-> "handshaken",
                                    clientid |-> h.internals.clientid,
                                    encrypted |-> h.internals.encrypted]]

\* _connect_client after its select, h being the task with what the chosen
\* branch left: on Success and on ShuttingDown the worker is sent to the
\* manager, on an error the task returns
after_select(k, state, error, h) ==
    IF state = "Err"
    THEN /\ handshake' = [handshake EXCEPT ![k] =
                             [h EXCEPT !.pc = "failed", !.state = state, !.error = error]]
         /\ UNCHANGED <<rx, conn>>
    ELSE /\ handshake' = [handshake EXCEPT ![k] =
                             [h EXCEPT !.pc = "handed", !.state = state, !.error = error]]
         /\ rx' = Append(rx, k)
         /\ conn' = [conn EXCEPT ![k] = [state |-> "handshaken",
                                         clientid |-> h.internals.clientid,
                                         encrypted |-> h.internals.encrypted]]

\* the Notified future of handshake task k when the step leaves its select
\* by another branch: a notification it was given and has not taken is
\* passed on to another task that waits
drop_notified(k) ==
    IF HandshakeTask(k) \in shutdown.woken /\ handshake'[k].pc \notin {"select", "sending"}
    THEN \E t \in {HandshakeTask(j) : j \in {i \in Conns \ {k} : in_select(i)}}
                       \cup {OtherTasks} :
            shutdown' = [shutdown EXCEPT !.woken = {t}]
    ELSE UNCHANGED shutdown

\* ClientWorker::connect, from the packet conn.recv() gives to the write of
\* the CONNACK: an error or a first packet that is no CONNECT ends the
\* select with the error; a CONNECT is processed, and the task waits for
\* the write of the CONNACK or dies of a panic
connect_recv(k, first, order, warn_enabled) ==
    /\ handshake[k].pc = "select"
    /\ LET h == [handshake[k] EXCEPT !.first = first]
       IN CASE first.type = "Err" -> after_select(k, "Err", first.error, h)
            [] first.type \notin {"Err", "CONNECT"} ->
                 after_select(k, "Err", "FirstPacketNotConnect", h)
            [] first.type = "CONNECT" ->
                 LET r == process_connect(first, h.internals, order, warn_enabled)
                 IN /\ handshake' = [handshake EXCEPT ![k] =
                          IF r.kind = "panic"
                          THEN [h EXCEPT !.pc = "panicked", !.internals = r.internals]
                          ELSE [h EXCEPT !.pc = "sending", !.internals = r.internals,
                                         !.connack = r.connack, !.result = r.result]]
                    /\ UNCHANGED <<rx, conn>>
    /\ drop_notified(k)
    /\ UNCHANGED handshakeRest

\* the write of the CONNACK ends: process_connect returns, the select takes
\* the result and _connect_client goes on with it
connect_send(k, written) ==
    /\ handshake[k].pc = "sending"
    /\ LET h == handshake[k]
       IN IF ~written THEN after_select(k, "Err", "Io", h)
          ELSE LET g == [h EXCEPT !.sent = Append(@, h.connack)]
               IN IF h.result = "Ok" THEN after_select(k, "Success", "none", g)
                  ELSE after_select(k, "Err", h.result, g)
    /\ drop_notified(k)
    /\ UNCHANGED handshakeRest

\* the sleep of keep_alive seconds ends first: the select drops the
\* handshake where it is
connect_timeout(k) ==
    /\ in_select(k)
    /\ after_select(k, "Err", "TimeOut", handshake[k])
    /\ drop_notified(k)
    /\ UNCHANGED handshakeRest

\* MqttServer::shutdown: notify_one wakes one of the tasks that wait on the
\* notification
shutdown_notify_one ==
    /\ ~shutdown.called
    /\ \E t \in {HandshakeTask(k) : k \in {j \in Conns : in_select(j)}} \cup {OtherTasks} :
          shutdown' = [shutdown EXCEPT !.called = TRUE, !.woken = {t}]
    /\ UNCHANGED <<handshake, conn, rx, handshakeRest>>

\* the handshake task that the notification woke takes the shutdown branch
\* of its select
connect_shutdown(k) ==
    /\ in_select(k)
    /\ HandshakeTask(k) \in shutdown.woken
    /\ shutdown' = [shutdown EXCEPT !.woken = @ \ {HandshakeTask(k)}]
    /\ after_select(k, "ShuttingDown", "none", handshake[k])
    /\ UNCHANGED handshakeRest

NextHandshake ==
    \/ \E k \in Conns : MqttListener_listen(k)
    \/ \E k \in Conns, first \in FirstPackets, warn_enabled \in BOOLEAN :
          \E order \in Orders(IF first.type = "CONNECT" THEN DOMAIN first.props ELSE {}) :
             connect_recv(k, first, order, warn_enabled)
    \/ \E k \in Conns, written \in BOOLEAN : connect_send(k, written)
    \/ \E k \in Conns : connect_timeout(k)
    \/ shutdown_notify_one
    \/ \E k \in Conns : connect_shutdown(k)
    \/ process_new_worker

SpecHandshake == InitHandshake /\ [][NextHandshake]_vars

(***************************************************************************)
(* Properties of the handshake.                                            *)
(***************************************************************************)
\* a Success CONNACK was written on connection k
success_sent(k) ==
    \E i \in 1..Len(handshake[k].sent) : handshake[k].sent[i].reason_code = "Success"

\* the worker of connection k was handed to the manager
handed_over(k) ==
    \/ conn[k].state # "none"
    \/ \E i \in 1..Len(rx) : rx[i] = k
    \/ \E c \in DOMAIN clients : clients[c] = k

\* C13: the worker of a connection is handed to the manager, and its
\* clientid put in the directory, only after a Success CONNACK was written
\* on the connection; a handshake that ended by an error, by the keep-alive
\* or by the shutdown notification has not handed its worker over
C13_HandedOnlyAfterSuccessConnAck ==
    \A k \in Conns :
        /\ handed_over(k) => success_sent(k)
        /\ handshake[k].state \in {"Err", "ShuttingDown"} => ~handed_over(k)

\* a CONNECT the server refuses: no CLEAN_START, a username, a password, a
\* will, or an authentication property
refused(first) ==
    /\ first.type = "CONNECT"
    /\ \/ ~first.clean_start
       \/ first.username
       \/ first.password
       \/ first.will
       \/ DOMAIN first.props \cap AuthProperties # {}

\* C14: a connection whose CONNECT the server refuses is never handed to
\* the manager nor put in the directory, is never sent a Success CONNACK,
\* and the CONNACK written when process_connect refuses it has the reason
\* ImplementationSpecificError
C14_RefusedConnectNeverEntersDirectory ==
    \A k \in Conns :
        refused(handshake[k].first) =>
            /\ ~handed_over(k)
            /\ ~success_sent(k)
            /\ handshake[k].error = "Unimplemented" =>
                  handshake[k].sent = <<ConnAck("ImplementationSpecificError", FALSE)>>

\* a CONNECT the server is to accept: CLEAN_START, no username, password or
\* will, and no property but those process_connect takes or ignores
acceptable(first) ==
    /\ first.type = "CONNECT"
    /\ first.clean_start
    /\ ~first.username
    /\ ~first.password
    /\ ~first.will
    /\ DOMAIN first.props \subseteq AcceptedProperties

\* C15: when a handshake receives a CONNECT the server is to accept,
\* process_connect gets to the write of a Success CONNACK, and the write,
\* when it ends well, completes the handshake
C15_AcceptableConnectSucceeds ==
    [][\A k \in Conns :
          /\ (handshake[k].pc = "select" /\ acceptable(handshake'[k].first)) =>
                /\ handshake'[k].pc = "sending"
                /\ handshake'[k].connack.reason_code = "Success"
          /\ (/\ handshake[k].pc = "sending"
              /\ acceptable(handshake[k].first)
              /\ Len(handshake'[k].sent) = Len(handshake[k].sent) + 1) =>
                handshake'[k].state = "Success"]_vars

\* C16: a handshake that the keep-alive ended has the TimeOut error, wrote
\* no CONNACK on its connection, and its worker is not handed to the manager
C16_TimeOutEndsHandshakeWithoutConnAck ==
    \A k \in Conns :
        handshake[k].error = "TimeOut" =>
            /\ handshake[k].pc = "failed"
            /\ handshake[k].state = "Err"
            /\ handshake[k].sent = <<>>
            /\ ~handed_over(k)

\* the keep-alive ended a handshake that had read an acceptable CONNECT and
\* was writing its CONNACK, while another connection is in the directory
C16_Witness ==
    \E k \in Conns :
        /\ handshake[k].error = "TimeOut"
        /\ handshake[k].connack.type = "CONNACK"
        /\ handshake[k].connack.reason_code = "Success"
        /\ \E c \in DOMAIN clients : clients[c] # k

(***************************************************************************)
(* MqttClient::recv: the framing of the packets of one connection.  The    *)
(* peer sends frames; a frame is known by its encoded size and by whether  *)
(* it is well formed.  A byte of the stream carries the frame it belongs   *)
(* to, which is what the decoder learns from the bytes it is given.        *)
(***************************************************************************)
\* the most frames the peer sends
MaxFrames == 2

\* the sizes of the frames: the smallest packet has a type byte and a
\* length byte, the largest is two bytes over max_packet_size
FrameSizes == 2..(MaxPacketSize + 2)

\* whether a frame is well formed, has a bad first byte, or a bad body
FrameKinds == {"ok", "BadPacketType", "BadBody"}

Frames == [size : FrameSizes, kind : FrameKinds]

\* the bytes of one frame on the wire
RECURSIVE frame_bytes(_, _)
frame_bytes(frame, n) ==
    IF n = 0 THEN <<>> ELSE Append(frame_bytes(frame, n - 1), frame)

\* the bytes of a sequence of frames on the wire
RECURSIVE wire_bytes(_)
wire_bytes(frames) ==
    IF frames = <<>> THEN <<>>
    ELSE frame_bytes(Head(frames), Head(frames).size) \o wire_bytes(Tail(frames))

\* Packet::from_bytes on the buffered bytes: InsufficientBuffer with fewer
\* than two bytes, the error of a bad first byte, InsufficientBuffer with
\* fewer bytes than the length read from the header, else the body is
\* decoded
from_bytes(bytes) ==
    IF Len(bytes) < 2 THEN [kind |-> "InsufficientBuffer", frame_len |-> 0]
    ELSE IF bytes[1].kind = "BadPacketType" THEN [kind |-> "BadPacketType", frame_len |-> 0]
    ELSE IF Len(bytes) < bytes[1].size THEN [kind |-> "InsufficientBuffer", frame_len |-> 0]
    ELSE IF bytes[1].kind = "BadBody" THEN [kind |-> "BadBody", frame_len |-> 0]
    ELSE [kind |-> "Ok", frame_len |-> bytes[1].size]

\* the limit recv gives the reader before it reads
read_limit_whole(bytes) == MaxPacketSize

read_limit(bytes) == MaxPacketSize - Len(bytes)

\* MqttClient::new: an empty buffer
MqttClient_new(frames) ==
    [state |-> "recv", bytes |-> <<>>, wire |-> wire_bytes(frames),
     packets |-> <<>>, error |-> "none", eof |-> FALSE]

InitRecv ==
    /\ root_block = TopicsTable_new.root_block
    /\ reverse_index = TopicsTable_new.reverse_index
    /\ InitIndexIdle
    /\ calls = <<>>
    /\ InitBrokerIdle
    /\ handshake = NoHandshake
    /\ shutdown = NoShutdown
    /\ tasks = NoTasks
    /\ server = NoServer
    /\ codec = NoCodec
    /\ \E n \in 1..MaxFrames : \E frames \in [1..n -> Frames] :
          reader = MqttClient_new(frames)

recvRest == <<root_block, reverse_index, apiVars, brokerVars, calls, handshake,
              shutdown, tasks, server, codec>>

\* recv decodes a packet: the buffer advances by its frame_len and the
\* packet is returned to listen, which forwards it and calls recv again
recv_packet ==
    /\ reader.state = "recv"
    /\ from_bytes(reader.bytes).kind = "Ok"
    /\ reader' = [reader EXCEPT
                    !.bytes = SubSeq(reader.bytes, from_bytes(reader.bytes).frame_len + 1,
                                     Len(reader.bytes)),
                    !.packets = Append(reader.packets, reader.bytes[1])]
    /\ UNCHANGED recvRest

\* InsufficientBuffer with a full buffer: recv fails
recv_exceeded ==
    /\ reader.state = "recv"
    /\ from_bytes(reader.bytes).kind = "InsufficientBuffer"
    /\ Len(reader.bytes) = MaxPacketSize
    /\ reader' = [reader EXCEPT !.state = "failed", !.error = "MaxPacketSizeExceeded"]
    /\ UNCHANGED recvRest

\* InsufficientBuffer otherwise: the limit is set and read_buf appends the
\* n bytes the transport has, at most the limit
recv_read_buf(n) ==
    /\ reader.state = "recv"
    /\ from_bytes(reader.bytes).kind = "InsufficientBuffer"
    /\ Len(reader.bytes) # MaxPacketSize
    /\ n >= 1
    /\ n <= read_limit(reader.bytes)
    /\ n <= Len(reader.wire)
    /\ reader' = [reader EXCEPT
                    !.bytes = reader.bytes \o SubSeq(reader.wire, 1, n),
                    !.wire = SubSeq(reader.wire, n + 1, Len(reader.wire))]
    /\ UNCHANGED recvRest

\* read_buf at the end of the stream: no byte is appended and recv loops
recv_read_eof ==
    /\ reader.state = "recv"
    /\ from_bytes(reader.bytes).kind = "InsufficientBuffer"
    /\ Len(reader.bytes) # MaxPacketSize
    /\ reader.wire = <<>>
    /\ reader' = [reader EXCEPT !.eof = TRUE]
    /\ UNCHANGED recvRest

\* read_buf fails: recv returns the error
recv_read_error ==
    /\ reader.state = "recv"
    /\ from_bytes(reader.bytes).kind = "InsufficientBuffer"
    /\ Len(reader.bytes) # MaxPacketSize
    /\ reader' = [reader EXCEPT !.state = "failed", !.error = "Io"]
    /\ UNCHANGED recvRest

\* any other error of the decoder: recv returns it
recv_parse_error ==
    /\ reader.state = "recv"
    /\ from_bytes(reader.bytes).kind \in {"BadPacketType", "BadBody"}
    /\ reader' = [reader EXCEPT !.state = "failed", !.error = from_bytes(reader.bytes).kind]
    /\ UNCHANGED recvRest

NextRecv ==
    \/ recv_packet
    \/ recv_exceeded
    \/ \E n \in 1..MaxPacketSize : recv_read_buf(n)
    \/ recv_read_eof
    \/ recv_read_error
    \/ recv_parse_error

SpecRecv == InitRecv /\ [][NextRecv]_vars

\* C17: the buffer of recv never holds more than max_packet_size bytes, no
\* packet recv returns is larger than max_packet_size, and a recv that finds
\* an incomplete packet in a buffer of max_packet_size bytes fails with
\* MaxPacketSizeExceeded
C17_RecvHonoursMaxPacketSize ==
    /\ [](/\ Len(reader.bytes) <= MaxPacketSize
          /\ \A i \in 1..Len(reader.packets) : reader.packets[i].size <= MaxPacketSize)
    /\ [][(/\ Len(reader.bytes) = MaxPacketSize
           /\ from_bytes(reader.bytes).kind = "InsufficientBuffer") =>
             (reader'.state = "failed" /\ reader'.error = "MaxPacketSizeExceeded")]_vars

\* recv returned a packet of max_packet_size bytes and then failed on a
\* larger one with its buffer full
C17_Witness ==
    /\ reader.error = "MaxPacketSizeExceeded"
    /\ Len(reader.bytes) = MaxPacketSize
    /\ reader.bytes[1].size > MaxPacketSize
    /\ Len(reader.packets) = 1
    /\ reader.packets[1].size = MaxPacketSize

(***************************************************************************)
(* MqttServer::new: the dispatcher's input channel and the tasks.          *)
(***************************************************************************)
\* the largest dispatcher_queue_size configured, in bytes
MaxQueueSize == 9

\* the largest size_of::<PacketInfo>() a build may have, in bytes
MaxSizeOf == 4

\* MqttServerConfig, as far as MqttServer::new reads it
ServerConfigs ==
    [dispatcher_queue_size : 0..MaxQueueSize, mqtt_socketaddr : BOOLEAN]

\* tokio's mpsc::channel(buffer): it panics when buffer is 0
channel(buffer) ==
    IF buffer = 0 THEN [kind |-> "panic", capacity |-> 0]
    ELSE [kind |-> "channel", capacity |-> buffer]

InitNew ==
    /\ root_block = TopicsTable_new.root_block
    /\ reverse_index = TopicsTable_new.reverse_index
    /\ InitIndexIdle
    /\ calls = <<>>
    /\ InitBrokerIdle
    /\ handshake = NoHandshake
    /\ shutdown = NoShutdown
    /\ tasks = NoTasks
    /\ reader = NoReader
    /\ codec = NoCodec
    /\ \E cfg \in ServerConfigs : \E size_of \in 1..MaxSizeOf :
          server = [state |-> "new", cfg |-> cfg, size_of |-> size_of,
                    capacity |-> 0, workers |-> {}]

newRest == <<root_block, reverse_index, apiVars, brokerVars, calls, handshake,
             shutdown, tasks, reader, codec>>

\* MqttServer::new up to ClientManager::start: queue_len is the configured
\* size divided by the size of a PacketInfo, rounded down, and the channel
\* is made with it
new_channel ==
    /\ server.state = "new"
    /\ LET queue_len == server.cfg.dispatcher_queue_size \div server.size_of
           made == channel(queue_len)
       IN  server' = [server EXCEPT
                        !.state = IF made.kind = "panic" THEN "panicked" ELSE "channel",
                        !.capacity = made.capacity]
    /\ UNCHANGED newRest

\* ClientManager::start: the listener is bound and spawned when an address
\* is configured, then the manager is spawned; a failed bind fails new
ClientManager_start(bound) ==
    /\ server.state = "channel"
    /\ server' = IF server.cfg.mqtt_socketaddr /\ ~bound
                 THEN [server EXCEPT !.state = "failed"]
                 ELSE [server EXCEPT
                         !.state = "started",
                         !.workers = (IF server.cfg.mqtt_socketaddr
                                      THEN {"listener"} ELSE {}) \cup {"manager"}]
    /\ UNCHANGED newRest

\* the dispatcher is made and spawned, and new returns the server
Dispatcher_spawn ==
    /\ server.state = "started"
    /\ server' = [server EXCEPT !.state = "built",
                                !.workers = server.workers \cup {"dispatcher"}]
    /\ UNCHANGED newRest

NextNew ==
    \/ new_channel
    \/ \E bound \in BOOLEAN : ClientManager_start(bound)
    \/ Dispatcher_spawn

SpecNew == InitNew /\ [][NextNew]_vars

\* C20: for every dispatcher_queue_size, MqttServer::new makes the
\* dispatcher's input channel with the capacity
\* max(1, dispatcher_queue_size / sizeof(PacketInfo)) and goes on with the
\* construction
C20_ChannelCapacityAtLeastOne ==
    [][server.state = "new" =>
          /\ server'.state = "channel"
          /\ server'.capacity =
                Max({1, server.cfg.dispatcher_queue_size \div server.size_of})]_vars

(***************************************************************************)
(* MqttServer::shutdown and the tasks that wait on the shutdown Notify:    *)
(* the listener, the manager, the dispatcher, and per connection its       *)
(* handshake task and then its worker.                                     *)
(***************************************************************************)
ListenerTask == Task("listener", 0)
ManagerTask == Task("manager", 0)
DispatcherTask == Task("dispatcher", 0)
WorkerTask(k) == Task("worker", k)

\* the tasks whose select has a shutdown.notified() branch to take
waiting(tk) ==
    (IF tk.listener = "running" THEN {ListenerTask} ELSE {})
    \cup (IF tk.manager = "running" THEN {ManagerTask} ELSE {})
    \cup (IF tk.dispatcher = "running" THEN {DispatcherTask} ELSE {})
    \cup {HandshakeTask(k) : k \in {j \in Conns : tk.conns[j] = "handshake"}}
    \cup {WorkerTask(k) : k \in {j \in Conns : tk.conns[j] = "worker"}}

\* Notify::notify_one: one of the tasks that wait is woken; which one
\* depends on the order in which the tasks were first polled; with no task
\* waiting the permit is kept
notify_one(sd, waiters) ==
    IF waiters = {} THEN {[sd EXCEPT !.permit = TRUE, !.woken = {}]}
    ELSE {[sd EXCEPT !.woken = {t}] : t \in waiters}

\* a task leaves its select by another branch: the notification it was
\* given and has not taken is passed on
pass_on(t) ==
    IF t \in shutdown.woken
    THEN shutdown' \in notify_one(shutdown, waiting(tasks) \ {t})
    ELSE UNCHANGED shutdown

\* a task takes the notification it was given
take(t) ==
    /\ t \in shutdown.woken
    /\ shutdown' = [shutdown EXCEPT !.woken = {}]

\* the senders of the manager's queue: the listener and the handshake tasks
queue_senders(tk) ==
    (IF tk.listener = "running" THEN {ListenerTask} ELSE {})
    \cup {HandshakeTask(k) : k \in {j \in Conns : tk.conns[j] = "handshake"}}

\* the senders of the dispatcher's channel: the listener and every worker
\* made and not dropped
incoming_senders(tk) ==
    (IF tk.listener = "running" THEN {ListenerTask} ELSE {})
    \cup {WorkerTask(k) : k \in {j \in Conns : tk.conns[j] \in {"handshake", "queued", "worker"}}}

\* MqttServer::new has returned: the three tasks run and no connection is
\* accepted yet
InitShutdown ==
    /\ root_block = TopicsTable_new.root_block
    /\ reverse_index = TopicsTable_new.reverse_index
    /\ InitIndexIdle
    /\ calls = <<>>
    /\ InitBrokerIdle
    /\ handshake = NoHandshake
    /\ reader = NoReader
    /\ server = NoServer
    /\ codec = NoCodec
    /\ shutdown = NoShutdown
    /\ tasks = [listener |-> "running", manager |-> "running", dispatcher |-> "running",
                conns |-> [k \in Conns |-> "none"]]

shutdownRest == <<root_block, reverse_index, apiVars, brokerVars, calls, handshake,
                  reader, server, codec>>

\* MqttListener::listen: a connection is accepted and its handshake task
\* is spawned
listener_listen(k) ==
    /\ tasks.listener = "running"
    /\ tasks.conns[k] = "none"
    /\ tasks' = [tasks EXCEPT !.conns[k] = "handshake"]
    /\ UNCHANGED <<shutdown, shutdownRest>>

\* _connect_client leaves its select with the result of connect or with the
\* timeout: on Success the worker is sent to the manager, whose queue takes
\* it as long as the manager task lives; else the worker is dropped
handshake_ends(k, success) ==
    /\ tasks.conns[k] = "handshake"
    /\ tasks' = [tasks EXCEPT !.conns[k] =
                    IF success /\ tasks.manager # "ended" THEN "queued" ELSE "ended"]
    /\ pass_on(HandshakeTask(k))
    /\ UNCHANGED shutdownRest

\* _connect_client takes the shutdown branch and goes on to queue.send
handshake_shutdown(k) ==
    /\ tasks.conns[k] = "handshake"
    /\ take(HandshakeTask(k))
    /\ tasks' = [tasks EXCEPT !.conns[k] =
                    IF tasks.manager # "ended" THEN "queued" ELSE "ended"]
    /\ UNCHANGED shutdownRest

\* ClientManager::process_forever takes a worker from its queue and spawns it
manager_spawns_worker(k) ==
    /\ tasks.manager = "running"
    /\ tasks.conns[k] = "queued"
    /\ tasks' = [tasks EXCEPT !.conns[k] = "worker"]
    /\ UNCHANGED <<shutdown, shutdownRest>>

\* ClientWorker::run ends because listen_forever ended: the peer closed the
\* connection or a packet failed
worker_ends(k) ==
    /\ tasks.conns[k] = "worker"
    /\ tasks' = [tasks EXCEPT !.conns[k] = "ended"]
    /\ pass_on(WorkerTask(k))
    /\ UNCHANGED shutdownRest

\* ClientWorker::run takes the shutdown branch
worker_shutdown(k) ==
    /\ tasks.conns[k] = "worker"
    /\ take(WorkerTask(k))
    /\ tasks' = [tasks EXCEPT !.conns[k] = "ended"]
    /\ UNCHANGED shutdownRest

\* MqttServer::shutdown: notify_one, then the handles are awaited
MqttServer_shutdown ==
    /\ ~shutdown.called
    /\ shutdown' \in notify_one([shutdown EXCEPT !.called = TRUE], waiting(tasks))
    /\ UNCHANGED <<tasks, shutdownRest>>

\* MqttListener::run takes the shutdown branch: the listener ends and its
\* senders are dropped
listener_shutdown ==
    /\ tasks.listener = "running"
    /\ take(ListenerTask)
    /\ tasks' = [tasks EXCEPT !.listener = "ended"]
    /\ UNCHANGED shutdownRest

\* ClientManager::run takes the shutdown branch and waits for its workers
manager_shutdown ==
    /\ tasks.manager = "running"
    /\ take(ManagerTask)
    /\ tasks' = [tasks EXCEPT !.manager = "draining"]
    /\ UNCHANGED shutdownRest

\* ClientManager::process_forever finds its queue empty with every sender
\* dropped: it breaks, and run waits for the workers
manager_queue_closed ==
    /\ tasks.manager = "running"
    /\ queue_senders(tasks) = {}
    /\ \A k \in Conns : tasks.conns[k] # "queued"
    /\ tasks' = [tasks EXCEPT !.manager = "draining"]
    /\ pass_on(ManagerTask)
    /\ UNCHANGED shutdownRest

\* ClientManager::run has seen every worker it spawned end: the manager
\* ends, and the workers left in its queue are dropped with it
manager_drained ==
    /\ tasks.manager = "draining"
    /\ \A k \in Conns : tasks.conns[k] # "worker"
    /\ tasks' = [tasks EXCEPT !.manager = "ended",
                              !.conns = [k \in Conns |->
                                  IF tasks.conns[k] = "queued" THEN "ended"
                                  ELSE tasks.conns[k]]]
    /\ UNCHANGED <<shutdown, shutdownRest>>

\* Dispatcher::run takes the shutdown branch
dispatcher_shutdown ==
    /\ tasks.dispatcher = "running"
    /\ take(DispatcherTask)
    /\ tasks' = [tasks EXCEPT !.dispatcher = "ended"]
    /\ UNCHANGED shutdownRest

\* Dispatcher::process_forever finds its channel empty with every sender
\* dropped
dispatcher_incoming_closed ==
    /\ tasks.dispatcher = "running"
    /\ incoming_senders(tasks) = {}
    /\ tasks' = [tasks EXCEPT !.dispatcher = "ended"]
    /\ pass_on(DispatcherTask)
    /\ UNCHANGED shutdownRest

\* MqttServer::shutdown has awaited the handles of the listener, the
\* manager and the dispatcher: it returns
shutdown_returns ==
    /\ shutdown.called
    /\ ~shutdown.returned
    /\ tasks.listener = "ended"
    /\ tasks.manager = "ended"
    /\ tasks.dispatcher = "ended"
    /\ shutdown' = [shutdown EXCEPT !.returned = TRUE]
    /\ UNCHANGED <<tasks, shutdownRest>>

\* the steps of the tasks of the server, which the runtime schedules
TaskStep ==
    \/ \E k \in Conns : handshake_shutdown(k)
    \/ \E k \in Conns : manager_spawns_worker(k)
    \/ \E k \in Conns : worker_shutdown(k)
    \/ listener_shutdown
    \/ manager_shutdown
    \/ manager_queue_closed
    \/ manager_drained
    \/ dispatcher_shutdown
    \/ dispatcher_incoming_closed
    \/ shutdown_returns

NextShutdown ==
    \/ \E k \in Conns : listener_listen(k)
    \/ \E k \in Conns, success \in BOOLEAN : handshake_ends(k, success)
    \/ \E k \in Conns : worker_ends(k)
    \/ MqttServer_shutdown
    \/ \E k \in Conns : handshake_shutdown(k)
    \/ \E k \in Conns : manager_spawns_worker(k)
    \/ \E k \in Conns : worker_shutdown(k)
    \/ listener_shutdown
    \/ manager_shutdown
    \/ manager_queue_closed
    \/ manager_drained
    \/ dispatcher_shutdown
    \/ dispatcher_incoming_closed
    \/ shutdown_returns

\* the runtime runs every task that can take a step; what the peers do and
\* when shutdown is called is left open
SpecShutdown == InitShutdown /\ [][NextShutdown]_vars /\ WF_vars(TaskStep)

\* C18: after MqttServer::shutdown has signalled the notification, every
\* task that waits on it ends and shutdown returns
C18_ShutdownReturns ==
    shutdown.called ~>
        /\ shutdown.returned
        /\ waiting(tasks) = {}

(***************************************************************************)
(* The empty filter and the empty topic.                                   *)
(***************************************************************************)
\* C21: a subscribe with the empty filter leaves the tree and the reverse
\* index as they were, and a get_all_subscribed with the empty topic returns
\* the empty map
C21_EmptyTopicIsRejected ==
    [][/\ (\E c \in ClientIds : <<c, <<>>>> \in DOMAIN subscribed' \ DOMAIN subscribed) =>
             (root_block' = root_block /\ reverse_index' = reverse_index)
       /\ (subs.op = "none" /\ subs'.op = "get_all_subscribed" /\ subs'.topic = <<>>) =>
             subs'.result = EmptyMap]_vars

(***************************************************************************)
(* The wire codec of the packet crate.  A buffer is a sequence of bytes,   *)
(* a byte is a number in 0..255; a result is Ok with the value decoded and *)
(* the bytes left in the buffer, or Err with the error.                    *)
(***************************************************************************)
codecRest == <<root_block, reverse_index, apiVars, brokerVars, calls, handshake,
               shutdown, tasks, reader, server>>
InitCodecIdle ==
    /\ root_block = TopicsTable_new.root_block
    /\ reverse_index = TopicsTable_new.reverse_index
    /\ InitIndexIdle
    /\ calls = <<>>
    /\ InitBrokerIdle
    /\ handshake = NoHandshake
    /\ shutdown = NoShutdown
    /\ tasks = NoTasks
    /\ reader = NoReader
    /\ server = NoServer

Ok(value, rest) == [ok |-> TRUE, err |-> "", value |-> value, rest |-> rest]
Err(e) == [ok |-> FALSE, err |-> e, value |-> 0, rest |-> <<>>]
\* the ? of a Result: an error is returned, a value goes on
Try(r, then(_)) == IF r.ok THEN then(r) ELSE r

VbiMax == 268435455
MaxVbiSmall == 20
\* the u32 values a variable byte integer is made from: the small ones, the
\* ones around each change of length and around the largest, and a large one
VbiValues ==
    (0..MaxVbiSmall)
    \cup UNION {{t - 2, t - 1, t, t + 1} : t \in {128, 16384, 2097152, VbiMax + 1}}
    \cup {VbiMax * 7}

\* MqttVariableBytesInt::new with verify
MqttVariableBytesInt_new(i) ==
    IF i > VbiMax THEN Err("BadMqttVariableBytesInt") ELSE Ok(i, <<>>)

\* MqttVariableBytesInt::serialize: seven bits a byte, the low ones first,
\* bit 7 set on every byte but the last
RECURSIVE MqttVariableBytesInt_serialize(_)
MqttVariableBytesInt_serialize(i) ==
    LET encoded_byte == i % 128
        x == i \div 128
    IN IF x > 0 THEN <<encoded_byte + 128>> \o MqttVariableBytesInt_serialize(x)
       ELSE <<encoded_byte>>

\* the loop of MqttVariableBytesInt::deserialize; value stays below 2^28
\* while multiplier is at most 21, and is not used beyond
RECURSIVE vbi_loop(_, _, _)
vbi_loop(buf, multiplier, value) ==
    IF buf = <<>> THEN Err("InsufficientBuffer")
    ELSE LET encoded_byte == Head(buf)
             value2 == value + (encoded_byte % 128) * 2^multiplier
         IN IF multiplier > 21 THEN Err("BadMqttVariableBytesInt")
            ELSE IF encoded_byte < 128 THEN Ok(value2, Tail(buf))
            ELSE vbi_loop(Tail(buf), multiplier + 7, value2)

MqttVariableBytesInt_deserialize(buf) == vbi_loop(buf, 0, 0)

\* a size that takes 0x4000 for a two-byte value
MqttVariableBytesInt_size_late(i) ==
    IF i < 128 THEN 1 ELSE IF i <= 16384 THEN 2 ELSE IF i < 2097152 THEN 3 ELSE 4

\* MqttVariableBytesInt::size
MqttVariableBytesInt_size(i) ==
    IF i < 128 THEN 1 ELSE IF i < 16384 THEN 2 ELSE IF i < 2097152 THEN 3 ELSE 4

\* a variable byte integer is made of a u32, written, and read back
InitVbi ==
    /\ InitCodecIdle
    /\ \E i \in VbiValues :
          codec = [op |-> "vbi", at |-> "input", i |-> i, buf |-> <<>>, size |-> 0,
                   out |-> Err("")]

vbi_new ==
    /\ codec.op = "vbi" /\ codec.at = "input"
    /\ codec' = [codec EXCEPT
                   !.at = IF MqttVariableBytesInt_new(codec.i).ok THEN "new" ELSE "rejected",
                   !.out = MqttVariableBytesInt_new(codec.i)]
    /\ UNCHANGED codecRest

vbi_serialize ==
    /\ codec.op = "vbi" /\ codec.at = "new"
    /\ codec' = [codec EXCEPT !.at = "serialized",
                              !.buf = MqttVariableBytesInt_serialize(codec.i),
                              !.size = MqttVariableBytesInt_size(codec.i)]
    /\ UNCHANGED codecRest

vbi_deserialize ==
    /\ codec.op = "vbi" /\ codec.at = "serialized"
    /\ codec' = [codec EXCEPT !.at = "deserialized",
                              !.out = MqttVariableBytesInt_deserialize(codec.buf)]
    /\ UNCHANGED codecRest

NextVbi == vbi_new \/ vbi_serialize \/ vbi_deserialize
SpecVbi == InitVbi /\ [][NextVbi]_vars

\* C24: a variable byte integer made of a value up to 0x0FFFFFFF is written
\* in 1, 2, 3 or 4 bytes according to the thresholds 0x80, 0x4000 and
\* 0x200000, its size is that number of bytes, and reading the bytes gives
\* the value back and leaves nothing; a larger value is rejected by new
C24_VbiLengthAndRoundTrip ==
    codec.op = "vbi" =>
        /\ (codec.at = "rejected") <=> (codec.at # "input" /\ codec.i > 268435455)
        /\ codec.at \in {"serialized", "deserialized"} =>
              /\ Len(codec.buf) = (IF codec.i < 128 THEN 1
                                   ELSE IF codec.i < 16384 THEN 2
                                   ELSE IF codec.i < 2097152 THEN 3 ELSE 4)
              /\ codec.size = Len(codec.buf)
        /\ codec.at = "deserialized" =>
              /\ codec.out.ok
              /\ codec.out.value = codec.i
              /\ codec.out.rest = <<>>

C24_Witness ==
    /\ codec.op = "vbi" /\ codec.at = "deserialized"
    /\ codec.i = 16384 /\ Len(codec.buf) = 3

(***************************************************************************)
(* Property tables (packet/src/props.rs).  PropOwner is a set of kinds, a  *)
(* value is its type and its content, a string is the sequence of its      *)
(* bytes.                                                                  *)
(***************************************************************************)
PropOwnerKinds == {"AUTH", "CONNACK", "CONNECT", "DISCONNECT", "PUBACK", "PUBCOMP", "PUBLISH",
                   "PUBREC", "PUBREL", "SUBACK", "SUBSCRIBE", "UNSUBACK", "UNSUBSCRIBE", "WILL"}
\* PropOwner::ALL_MESSAGES: the sixteen bits, two of which name no kind
ALL_MESSAGES == PropOwnerKinds \cup {"bit14", "bit15"}

\* the properties looked at: one of every value type a property has, the
\* one property that may repeat, and owners that differ
PropertyKeys == {"PayloadFormatIndicator", "SubscriptionIdentifier", "SessionExpiryInterval",
                 "AuthenticationData", "RequestProblemInformation", "ReasonString",
                 "ReceiveMaximum", "UserProperty"}

\* the discriminant of a Property
Property_id(key) ==
    CASE key = "PayloadFormatIndicator" -> 1
      [] key = "SubscriptionIdentifier" -> 11
      [] key = "SessionExpiryInterval" -> 17
      [] key = "AuthenticationData" -> 22
      [] key = "RequestProblemInformation" -> 23
      [] key = "ReasonString" -> 31
      [] key = "ReceiveMaximum" -> 33
      [] key = "UserProperty" -> 38

\* Property::auxiliary_data, first value: the kinds that own the property
owners(key) ==
    CASE key = "PayloadFormatIndicator" -> {"PUBLISH", "WILL"}
      [] key = "SubscriptionIdentifier" -> {"PUBLISH", "SUBSCRIBE"}
      [] key = "SessionExpiryInterval" -> {"CONNECT", "CONNACK", "DISCONNECT"}
      [] key = "AuthenticationData" -> {"CONNECT", "CONNACK", "AUTH"}
      [] key = "RequestProblemInformation" -> {"CONNECT"}
      [] key = "ReasonString" -> {"CONNACK", "PUBACK", "PUBREC", "PUBREL", "PUBCOMP", "SUBACK",
                                  "UNSUBACK", "DISCONNECT", "AUTH"}
      [] key = "ReceiveMaximum" -> {"CONNECT", "CONNACK"}
      [] key = "UserProperty" -> PropOwnerKinds

\* Property::auxiliary_data, third value: whether the property may repeat
multiple(key) == key = "UserProperty"

\* the n bytes of v, the most significant first (put_u8, put_u16, put_u32)
RECURSIVE put_uint(_, _)
put_uint(v, n) == IF n = 0 THEN <<>> ELSE Append(put_uint(v \div 256, n - 1), v % 256)

\* get_u8, get_u16, get_u32 behind the check of the remaining bytes
RECURSIVE get_uint(_, _, _)
get_uint(buf, n, acc) ==
    IF n = 0 THEN Ok(acc, buf)
    ELSE IF buf = <<>> THEN Err("InsufficientBuffer")
    ELSE get_uint(Tail(buf), n - 1, acc * 256 + Head(buf))

\* MqttUtf8String / MqttBinaryData ::deserialize: the length, then that
\* many bytes
get_bytes(buf) ==
    LET len == get_uint(buf, 2, 0)
    IN IF ~len.ok THEN len
       ELSE IF Len(len.rest) < len.value THEN Err("InsufficientBuffer")
       ELSE Ok(SubSeq(len.rest, 1, len.value),
               SubSeq(len.rest, len.value + 1, Len(len.rest)))

\* MqttPropValue::serialize
MqttPropValue_serialize(v) ==
    CASE v.type \in {"Bool", "Byte"} -> put_uint(v.value, 1)
      [] v.type = "TwoBytesInt" -> put_uint(v.value, 2)
      [] v.type = "FourBytesInt" -> put_uint(v.value, 4)
      [] v.type \in {"String", "Data"} -> put_uint(Len(v.value), 2) \o v.value
      [] v.type = "StringPair" -> put_uint(Len(v.value[1]), 2) \o v.value[1]
                                  \o put_uint(Len(v.value[2]), 2) \o v.value[2]
      [] v.type = "VarInt" -> MqttVariableBytesInt_serialize(v.value)

\* a size that leaves out the two bytes of the length of binary data
MqttPropValue_size_data_without_length(v) ==
    CASE v.type \in {"Bool", "Byte"} -> 1
      [] v.type = "TwoBytesInt" -> 2
      [] v.type = "FourBytesInt" -> 4
      [] v.type = "String" -> 2 + Len(v.value)
      [] v.type = "Data" -> Len(v.value)
      [] v.type = "StringPair" -> 2 + Len(v.value[1]) + 2 + Len(v.value[2])
      [] v.type = "VarInt" -> MqttVariableBytesInt_size(v.value)

\* MqttPropValue::size
MqttPropValue_size(v) ==
    CASE v.type \in {"Bool", "Byte"} -> 1
      [] v.type = "TwoBytesInt" -> 2
      [] v.type = "FourBytesInt" -> 4
      [] v.type \in {"String", "Data"} -> 2 + Len(v.value)
      [] v.type = "StringPair" -> 2 + Len(v.value[1]) + 2 + Len(v.value[2])
      [] v.type = "VarInt" -> MqttVariableBytesInt_size(v.value)

\* MqttPropValue::deserialize
MqttPropValue_deserialize(buf, ty) ==
    LET r == CASE ty \in {"Bool", "Byte"} -> get_uint(buf, 1, 0)
               [] ty = "TwoBytesInt" -> get_uint(buf, 2, 0)
               [] ty = "FourBytesInt" -> get_uint(buf, 4, 0)
               [] ty \in {"String", "Data"} -> get_bytes(buf)
               [] ty = "VarInt" -> MqttVariableBytesInt_deserialize(buf)
    IN IF r.ok THEN Ok([type |-> ty, value |-> r.value], r.rest) ELSE r

\* Property::size
Property_size(key) == MqttVariableBytesInt_size(Property_id(key))

\* Property::deserialize
Property_deserialize(buf) ==
    LET i == MqttVariableBytesInt_deserialize(buf)
    IN IF ~i.ok THEN i
       ELSE IF \E key \in PropertyKeys : Property_id(key) = i.value
       THEN Ok(CHOOSE key \in PropertyKeys : Property_id(key) = i.value, i.rest)
       ELSE Err("BadProperty")

\* Properties::new
Properties_new == [size |-> 0, valid |-> ALL_MESSAGES, props |-> EmptyMap]

\* an unchecked_insert that adds the size of the new value of a
\* single-valued property without taking off the size of the old one
unchecked_insert_keeps_old_size(self, key, value, is_multiple) ==
    LET held == key \in DOMAIN self.props
        vec == IF is_multiple /\ held THEN Append(self.props[key], value) ELSE <<value>>
    IN [self |-> [self EXCEPT
                    !.size = self.size + MqttPropValue_size(value)
                             + (IF is_multiple \/ ~held THEN Property_size(key) ELSE 0),
                    !.props = MapInsert(self.props, key, vec)],
        old |-> IF ~is_multiple /\ held THEN Some(self.props[key][1]) ELSE None]

\* Properties::unchecked_insert: the table after it and the value it returns
unchecked_insert(self, key, value, is_multiple) ==
    LET held == key \in DOMAIN self.props
        with(vec) == MapInsert(self.props, key, vec)
    IN IF is_multiple
       THEN [self |-> [self EXCEPT
                         !.size = self.size + Property_size(key) + MqttPropValue_size(value),
                         !.props = with(IF held THEN Append(self.props[key], value)
                                        ELSE <<value>>)],
             old |-> None]
       ELSE [self |-> [self EXCEPT
                         !.size = IF held
                                  THEN self.size + MqttPropValue_size(value)
                                       - MqttPropValue_size(self.props[key][1])
                                  ELSE self.size + MqttPropValue_size(value)
                                       + Property_size(key),
                         !.props = with(<<value>>)],
             old |-> IF held THEN Some(self.props[key][1]) ELSE None]

\* an insert that leaves the owners of the table as they were
Properties_insert_keeps_valid(self, key, value) ==
    IF value.type # auxiliary_data(key)
    THEN [self |-> self, res |-> "BadProperty"]
    ELSE [self |-> unchecked_insert(self, key, value, multiple(key)).self,
          res |-> IF unchecked_insert(self, key, value, multiple(key)).old.some
                  THEN "BadProperty" ELSE "Ok"]

\* an insert that takes a second value of a single-valued property
Properties_insert_replaces(self, key, value) ==
    IF value.type # auxiliary_data(key)
    THEN [self |-> self, res |-> "BadProperty"]
    ELSE [self |-> unchecked_insert([self EXCEPT !.valid = self.valid \cap owners(key)],
                                    key, value, multiple(key)).self,
          res |-> "Ok"]

\* Properties::insert: the table after it and its result
Properties_insert(self, key, value) ==
    IF value.type # auxiliary_data(key)
    THEN [self |-> self, res |-> "BadProperty"]
    ELSE LET narrowed == [self EXCEPT !.valid = self.valid \cap owners(key)]
             r == unchecked_insert(narrowed, key, value, multiple(key))
         IN [self |-> r.self, res |-> IF r.old.some THEN "BadProperty" ELSE "Ok"]

\* Properties::checked_insert
Properties_checked_insert(self, key, value, ty) ==
    IF ~(ty \subseteq owners(key)) \/ auxiliary_data(key) # value.type
    THEN [self |-> self, res |-> "BadProperty"]
    ELSE LET narrowed == [self EXCEPT !.valid = self.valid \cap owners(key)]
         IN [self |-> unchecked_insert(narrowed, key, value, multiple(key)).self,
             res |-> "Ok"]

\* Properties::is_valid_for
is_valid_for(self, message) == self.valid \cap message = message

\* Properties::iter in the order the map gives the keys: every value of a
\* key, in the order of its insertion, with the key before it
RECURSIVE Properties_iter(_, _)
Properties_iter(self, order) ==
    IF order = <<>> THEN <<>>
    ELSE [i \in 1..Len(self.props[Head(order)]) |->
              <<Head(order), self.props[Head(order)][i]>>]
         \o Properties_iter(self, Tail(order))

\* the orders in which a HashMap may give its keys: the order depends on
\* the keys of the hasher, which every map draws anew
key_orders(self) ==
    {order \in [1..Cardinality(DOMAIN self.props) -> DOMAIN self.props] :
        \A i, j \in DOMAIN order : order[i] = order[j] => i = j}

RECURSIVE serialize_pairs(_)
serialize_pairs(pairs) ==
    IF pairs = <<>> THEN <<>>
    ELSE MqttVariableBytesInt_serialize(Property_id(Head(pairs)[1]))
         \o MqttPropValue_serialize(Head(pairs)[2])
         \o serialize_pairs(Tail(pairs))

\* Properties::serialize, the map giving its keys in this order
Properties_serialize(self, order) ==
    MqttVariableBytesInt_serialize(self.size) \o serialize_pairs(Properties_iter(self, order))

\* Properties::size
Properties_size(self) == MqttVariableBytesInt_size(self.size) + self.size

\* the loop of Properties::deserialize over the bytes of the section; a
\* pair is read out of at most size bytes and its size is at most the bytes
\* read, so the subtraction stays in usize
RECURSIVE deserialize_pairs(_, _, _)
deserialize_pairs(buf, size, props) ==
    IF size = 0 THEN Ok(props, buf)
    ELSE Try(Property_deserialize(buf), LAMBDA key :
         Try(MqttPropValue_deserialize(key.rest, auxiliary_data(key.value)), LAMBDA value :
         LET r == Properties_insert(props, key.value, value.value)
         IN IF r.res # "Ok" THEN Err(r.res)
            ELSE deserialize_pairs(
                    value.rest,
                    size - (Property_size(key.value) + MqttPropValue_size(value.value)),
                    r.self)))

\* Properties::deserialize: the length, then the pairs out of at most that
\* many bytes
Properties_deserialize(buf) ==
    Try(MqttVariableBytesInt_deserialize(buf), LAMBDA size :
    LET taken == IF Len(size.rest) < size.value THEN Len(size.rest) ELSE size.value
    IN Try(deserialize_pairs(SubSeq(size.rest, 1, taken), size.value, Properties_new),
           LAMBDA r : Ok(r.value, r.rest \o SubSeq(size.rest, taken + 1, Len(size.rest)))))
MaxInserts == 3
\* the kinds of the packets the tables are made for and decoded in
PacketKinds == {"CONNECT", "PUBLISH", "SUBACK", "AUTH"}
NoValue == [type |-> "none", value |-> 0]
\* the values inserted: one or two of every type, of different sizes
PropValues ==
    {[type |-> "Bool", value |-> 1], [type |-> "Byte", value |-> 2],
     [type |-> "TwoBytesInt", value |-> 258], [type |-> "FourBytesInt", value |-> 16909060],
     [type |-> "VarInt", value |-> 1], [type |-> "VarInt", value |-> 300],
     [type |-> "String", value |-> <<>>], [type |-> "String", value |-> <<104, 105>>],
     [type |-> "Data", value |-> <<7>>],
     [type |-> "StringPair", value |-> <<<<97>>, <<98>>>>]}

\* a property table is made, properties are inserted, the table is written
\* and the bytes are read as the property section of a packet of some kind;
\* inserted holds the properties of the calls that returned Ok, twice tells
\* that the last two calls were checked_insert of one property returning Ok
InitProps ==
    /\ InitCodecIdle
    /\ codec = [op |-> "props", call |-> "new", table |-> Properties_new, n |-> 0,
                inserted |-> {}, twice |-> FALSE, key |-> "", value |-> NoValue,
                res |-> "Ok",
                buf |-> <<>>, size |-> 0, kind |-> "", out |-> Err("")]

props_insert(key, value) ==
    /\ codec.op = "props" /\ codec.call \in {"new", "insert", "checked_insert"}
    /\ codec.n < MaxInserts
    /\ LET r == Properties_insert(codec.table, key, value)
       IN codec' = [codec EXCEPT !.call = "insert", !.table = r.self, !.n = codec.n + 1,
                                 !.twice = FALSE,
                                 !.inserted = IF r.res = "Ok" THEN codec.inserted \cup {key}
                                              ELSE codec.inserted,
                                 !.key = key, !.value = value, !.res = r.res]
    /\ UNCHANGED codecRest

props_checked_insert(key, value, ty) ==
    /\ codec.op = "props" /\ codec.call \in {"new", "insert", "checked_insert"}
    /\ codec.n < MaxInserts
    /\ LET r == Properties_checked_insert(codec.table, key, value, {ty})
       IN codec' = [codec EXCEPT !.call = "checked_insert", !.table = r.self,
                                 !.n = codec.n + 1,
                                 !.twice = /\ codec.call = "checked_insert"
                                           /\ codec.key = key
                                           /\ codec.res = "Ok" /\ r.res = "Ok",
                                 !.inserted = IF r.res = "Ok" THEN codec.inserted \cup {key}
                                              ELSE codec.inserted,
                                 !.key = key, !.value = value, !.res = r.res]
    /\ UNCHANGED codecRest

props_serialize ==
    /\ codec.op = "props" /\ codec.call \in {"new", "insert", "checked_insert"}
    /\ \E order \in key_orders(codec.table) :
          codec' = [codec EXCEPT !.call = "serialize",
                                 !.buf = Properties_serialize(codec.table, order),
                                 !.size = Properties_size(codec.table)]
    /\ UNCHANGED codecRest

\* the two steps every packet decoder takes for its property section:
\* Properties::deserialize, then BadProperty unless is_valid_for its kind
props_deserialize(kind) ==
    /\ codec.op = "props" /\ codec.call = "serialize"
    /\ LET props == Properties_deserialize(codec.buf)
       IN codec' = [codec EXCEPT
                      !.call = "deserialize", !.kind = kind,
                      !.out = IF props.ok /\ ~is_valid_for(props.value, {kind})
                              THEN Err("BadProperty") ELSE props]
    /\ UNCHANGED codecRest

NextProps ==
    \/ \E key \in PropertyKeys, value \in PropValues : props_insert(key, value)
    \/ \E key \in PropertyKeys, value \in PropValues, ty \in PacketKinds :
          props_checked_insert(key, value, ty)
    \/ props_serialize
    \/ \E kind \in PacketKinds : props_deserialize(kind)
SpecProps == InitProps /\ [][NextProps]_vars

\* C25: Properties::insert of a single-valued property the table already
\* holds returns BadProperty; an insert of a UserProperty with a string
\* returns Ok however many the table holds and adds the value after the ones
\* held; the bytes written hold every UserProperty inserted, in that order
C25_DuplicateRejectedUserPropertyRepeats ==
    /\ [](codec.op = "props" /\ codec.call = "serialize"
          /\ "UserProperty" \in DOMAIN codec.table.props =>
             /\ Properties_deserialize(codec.buf).ok
             /\ Properties_deserialize(codec.buf).value.props["UserProperty"]
                  = codec.table.props["UserProperty"])
    /\ [][codec.op = "props" /\ codec'.call = "insert" =>
           LET held == codec'.key \in DOMAIN codec.table.props
           IN /\ (held /\ codec'.key # "UserProperty") => codec'.res = "BadProperty"
              /\ (codec'.key = "UserProperty" /\ codec'.value.type = "String") =>
                    /\ codec'.res = "Ok"
                    /\ codec'.table.props["UserProperty"] =
                          Append(IF held THEN codec.table.props["UserProperty"] ELSE <<>>,
                                 codec'.value)]_vars

C25_Witness ==
    /\ codec.op = "props" /\ codec.call = "insert" /\ codec.res = "BadProperty"
    /\ codec.key = "ReasonString" /\ codec.value.type = "String"
    /\ "UserProperty" \in DOMAIN codec.table.props

\* the table made of nothing but these pairs, each inserted once
RECURSIVE TableOf(_, _)
TableOf(pairs, acc) ==
    IF pairs = <<>> THEN acc
    ELSE TableOf(Tail(pairs),
                 unchecked_insert(acc, Head(pairs)[1], Head(pairs)[2],
                                  multiple(Head(pairs)[1])).self)

\* C26: after two checked_insert calls in a row with one single-valued
\* property, both accepted, the table holds for it the second value alone,
\* and its size() and the bytes it writes are those of a table into which
\* only the values now held were ever inserted
C26_SecondCheckedInsertReplaces ==
    (codec.op = "props" /\ codec.call = "checked_insert" /\ codec.twice
     /\ ~multiple(codec.key)) =>
        /\ codec.table.props[codec.key] = <<codec.value>>
        /\ \A order \in key_orders(codec.table) :
              LET only == TableOf(Properties_iter(codec.table, order), Properties_new)
              IN /\ only.props = codec.table.props
                 /\ Properties_size(codec.table) = Properties_size(only)
                 /\ Properties_serialize(codec.table, order)
                      = Properties_serialize(only, order)

C26_Witness ==
    /\ codec.op = "props" /\ codec.call = "checked_insert" /\ codec.twice
    /\ codec.key = "SubscriptionIdentifier" /\ codec.value.value = 1
    /\ "ReasonString" \in DOMAIN codec.table.props

\* C27: a table is valid for a kind exactly when every property of the
\* calls that returned Ok so far has the kind among its owners; a property
\* section decoded for a packet of a kind holds no property of other kinds
C27_ValidForExactlyTheOwnersOfAll ==
    codec.op = "props" =>
        /\ \A kind \in PropOwnerKinds :
              is_valid_for(codec.table, {kind})
                 <=> \A key \in codec.inserted : kind \in owners(key)
        /\ (codec.call = "deserialize" /\ codec.out.ok) =>
              \A key \in DOMAIN codec.out.value.props : codec.kind \in owners(key)

C27_Witness ==
    /\ codec.op = "props" /\ codec.call = "deserialize" /\ codec.out.ok
    /\ codec.kind = "PUBLISH"
    /\ {"SubscriptionIdentifier", "UserProperty"} \subseteq DOMAIN codec.out.value.props
    /\ ~is_valid_for(codec.table, {"CONNECT"})

\* the bytes the pairs take on the wire
RECURSIVE WireSize(_)
WireSize(pairs) ==
    IF pairs = <<>> THEN 0
    ELSE Len(MqttVariableBytesInt_serialize(Property_id(Head(pairs)[1])))
         + Len(MqttPropValue_serialize(Head(pairs)[2]))
         + WireSize(Tail(pairs))

\* C28: after any calls of insert and checked_insert, accepted or not, the
\* size the table keeps is the number of bytes its pairs take on the wire,
\* and size() is the number of bytes serialize writes
C28_SizeIsTheBytesWritten ==
    codec.op = "props" =>
        /\ \A order \in key_orders(codec.table) :
              codec.table.size = WireSize(Properties_iter(codec.table, order))
        /\ codec.call \in {"serialize", "deserialize"} => codec.size = Len(codec.buf)

C28_Witness ==
    /\ codec.op = "props" /\ codec.call = "serialize"
    /\ codec.res = "BadProperty" /\ codec.key = "SubscriptionIdentifier"
    /\ codec.value.type = "VarInt" /\ codec.value.value = 300
    /\ {"SubscriptionIdentifier", "AuthenticationData"} \subseteq DOMAIN codec.table.props
    /\ codec.table.props["SubscriptionIdentifier"] = <<codec.value>>
    /\ codec.size = Len(codec.buf)

(***************************************************************************)
(* Topic names and filters of packets (packet/src/topic.rs, publish.rs).   *)
(***************************************************************************)
\* MqttTopic::new
MqttTopic_new(topic) == IF ~is_valid_topic(topic) THEN "BadTopic" ELSE "Ok"

\* Publish::new
Publish_new(topic_name) ==
    IF MqttTopic_new(topic_name) # "Ok" THEN MqttTopic_new(topic_name)
    ELSE IF is_wildcard(topic_name) THEN "BadTopic"
    ELSE "Ok"

\* a string is given to MqttTopic::new as a filter and to Publish::new as
\* the topic of a PUBLISH
InitTopic ==
    /\ InitCodecIdle
    /\ \E s \in StrsUpTo(MaxLen) :
          codec = [op |-> "topic", call |-> "none", topic |-> s, res |-> ""]

topic_new ==
    /\ codec.op = "topic" /\ codec.call = "none"
    /\ codec' = [codec EXCEPT !.call = "MqttTopic::new", !.res = MqttTopic_new(codec.topic)]
    /\ UNCHANGED codecRest

publish_new ==
    /\ codec.op = "topic" /\ codec.call = "none"
    /\ codec' = [codec EXCEPT !.call = "Publish::new", !.res = Publish_new(codec.topic)]
    /\ UNCHANGED codecRest

NextTopic == topic_new \/ publish_new
SpecTopic == InitTopic /\ [][NextTopic]_vars

PacketTypes == <<"Connect", "ConnAck", "Publish", "PubAck", "PubRec", "PubRel", "PubComp",
                 "Subscribe", "SubAck", "Unsubscribe", "UnsubAck", "PingReq", "PingRes",
                 "Disconnect", "Auth">>

\* enum PacketType: the number of a kind
PacketType(kind) == CHOOSE n \in 1..15 : PacketTypes[n] = kind

\* a fixed_flags that gives SUBSCRIBE no flag
fixed_flags_zero_for_subscribe(kind) == IF kind \in {"PubRel", "Unsubscribe"} THEN 2 ELSE 0

\* PacketType::fixed_flags
fixed_flags(kind) == IF kind \in {"PubRel", "Subscribe", "Unsubscribe"} THEN 2 ELSE 0

\* PacketType::parse with check_flags: the kind in the high four bits, the
\* flags in the low four
PacketType_parse(data) ==
    LET packet_type == IF data \div 16 = 0 THEN "Reserved" ELSE PacketTypes[data \div 16]
        flags == data % 16
    IN IF packet_type = "Publish" THEN Ok(packet_type, <<>>)
       ELSE IF packet_type \in {"PubRel", "Subscribe", "Unsubscribe"}
       THEN (IF flags = 2 THEN Ok(packet_type, <<>>) ELSE Err("BadPacketType"))
       ELSE IF flags = 0 THEN Ok(packet_type, <<>>) ELSE Err("BadPacketType")

\* TryInto<QoS> for PublishFlags
PublishFlags_qos(flags) ==
    LET qos1 == (flags \div 2) % 2 = 1
        qos2 == (flags \div 4) % 2 = 1
    IN IF qos1 /\ qos2 THEN Err("BadQoS")
       ELSE Ok(IF qos1 THEN 1 ELSE IF qos2 THEN 2 ELSE 0, <<>>)

\* what Packet::deserialize does with the first byte before it reads on:
\* PacketType::parse, the reserved kind, and for a PUBLISH
\* PublishFlags::deserialize on the low four bits
first_byte(byte1) ==
    LET packet_type == PacketType_parse(byte1)
    IN IF ~packet_type.ok THEN packet_type
       ELSE IF packet_type.value = "Reserved" THEN Err("BadPacketType")
       ELSE IF packet_type.value = "Publish" /\ ~PublishFlags_qos(byte1 % 16).ok
       THEN PublishFlags_qos(byte1 % 16)
       ELSE packet_type

\* the PropOwner of a kind
PropOwner(kind) ==
    CASE kind = "Connect" -> "CONNECT"
      [] kind = "ConnAck" -> "CONNACK"
      [] kind = "Publish" -> "PUBLISH"
      [] kind = "PubAck" -> "PUBACK"
      [] kind = "PubRec" -> "PUBREC"
      [] kind = "PubRel" -> "PUBREL"
      [] kind = "PubComp" -> "PUBCOMP"
      [] kind = "Subscribe" -> "SUBSCRIBE"
      [] kind = "SubAck" -> "SUBACK"
      [] kind = "Unsubscribe" -> "UNSUBSCRIBE"
      [] kind = "UnsubAck" -> "UNSUBACK"
      [] kind = "Disconnect" -> "DISCONNECT"
      [] kind = "Auth" -> "AUTH"

Ping(kind) == kind \in {"PingReq", "PingRes"}

Field(type, value) == [type |-> type, value |-> value]
\* a topic is written as the string it holds (MqttTopic::serialize, size)
field_serialize(f) ==
    IF f.type = "Raw" THEN f.value
    ELSE MqttPropValue_serialize(IF f.type = "Topic" THEN Field("String", f.value) ELSE f)
field_size(f) ==
    IF f.type = "Raw" THEN Len(f.value)
    ELSE MqttPropValue_size(IF f.type = "Topic" THEN Field("String", f.value) ELSE f)

\* the characters of the bytes of a topic, as far as is_valid_topic tells
\* them apart
topic_chars(bytes) ==
    [i \in 1..Len(bytes) |-> CASE bytes[i] = 35 -> "#"
                               [] bytes[i] = 43 -> "+"
                               [] bytes[i] = 47 -> "/"
                               [] OTHER -> "a"]

\* deserialize of the type of a field; MqttTopic::deserialize reads a string
\* and checks it
field_deserialize(buf, ty) ==
    IF ty # "Topic" THEN MqttPropValue_deserialize(buf, ty)
    ELSE Try(MqttPropValue_deserialize(buf, "String"), LAMBDA string :
             IF ~is_valid_topic(topic_chars(string.value.value)) THEN Err("BadTopic")
             ELSE Ok(Field("Topic", string.value.value), string.rest))

RECURSIVE fields_serialize(_)
fields_serialize(fields) ==
    IF fields = <<>> THEN <<>>
    ELSE field_serialize(Head(fields)) \o fields_serialize(Tail(fields))

RECURSIVE fields_size(_)
fields_size(fields) ==
    IF fields = <<>> THEN 0 ELSE field_size(Head(fields)) + fields_size(Tail(fields))

\* a partial_size that leaves the property table out
partial_size_without_props(p) == fields_size(p.head) + fields_size(p.tail)

\* partial_size of each kind: the sizes of its fields and of its table
partial_size(p) == fields_size(p.head) + Properties_size(p.props) + fields_size(p.tail)

\* Packet::size, which is frame_len: the first byte and the size of the
\* kind, its length and its partial_size; a ping is its one byte of length
Packet_size(p) ==
    1 + (IF Ping(p.kind) THEN 1
         ELSE MqttVariableBytesInt_size(partial_size(p)) + partial_size(p))

\* Packet::serialize, the map of the table giving its keys in this order
Packet_serialize(p, order) ==
    <<PacketType(p.kind) * 16 + (IF p.kind = "Publish" THEN p.flags ELSE fixed_flags(p.kind))>>
    \o (IF Ping(p.kind) THEN <<0>>
        ELSE MqttVariableBytesInt_serialize(partial_size(p))
             \o fields_serialize(p.head)
             \o Properties_serialize(p.props, order)
             \o fields_serialize(p.tail))

\* the types of the fields a decoder reads before the property table
head_types(kind, flags) ==
    CASE kind = "Connect" -> <<"String", "Byte", "Byte", "TwoBytesInt">>
      [] kind = "ConnAck" -> <<"Byte", "Byte">>
      [] kind = "Publish" ->
            <<"Topic">> \o (IF PublishFlags_qos(flags).value = 0 THEN <<>>
                             ELSE <<"TwoBytesInt">>)
      [] kind \in {"PubAck", "PubRec", "PubRel", "PubComp"} -> <<"TwoBytesInt", "Byte">>
      [] kind \in {"Subscribe", "SubAck", "Unsubscribe", "UnsubAck"} -> <<"TwoBytesInt">>
      [] kind \in {"Disconnect", "Auth"} -> <<"Byte">>

\* the fields of these types, read one after the other
RECURSIVE get_fields(_, _, _)
get_fields(buf, types, acc) ==
    IF types = <<>> THEN Ok(acc, buf)
    ELSE Try(field_deserialize(buf, Head(types)),
             LAMBDA f : get_fields(f.rest, Tail(types), Append(acc, f.value)))

\* the loop of a decoder over its list: entries of these types while bytes
\* remain
RECURSIVE get_list(_, _, _)
get_list(buf, entry, acc) ==
    IF buf = <<>> THEN Ok(acc, buf)
    ELSE Try(get_fields(buf, entry, <<>>),
             LAMBDA e : get_list(e.rest, entry, acc \o e.value))

\* the types of the fields a decoder reads after the property table: the
\* client identifier, user name and password of a CONNECT, and the entry of
\* the list of the four kinds that have one
tail_types(kind, head) ==
    CASE kind = "Connect" ->
            <<"String">> \o (IF head[3].value \div 128 = 1 THEN <<"String">> ELSE <<>>)
                         \o (IF (head[3].value \div 64) % 2 = 1 THEN <<"Data">> ELSE <<>>)
      [] kind = "Subscribe" -> <<"Topic", "Byte">>
      [] kind = "Unsubscribe" -> <<"Topic">>
      [] kind \in {"SubAck", "UnsubAck"} -> <<"Byte">>
      [] OTHER -> <<>>

\* the error of a decoder whose list is empty
empty_list(kind) ==
    Err(CASE kind = "Subscribe" -> "BadSubscribeMessage"
          [] kind = "SubAck" -> "BadSubAckMessage"
          [] kind = "Unsubscribe" -> "BadUnsubscribeMessage"
          [] kind = "UnsubAck" -> "BadUnsubAckMessage")

\* the fields a decoder reads after the property table; the payload of a
\* PUBLISH is what remains, and a list must not be empty
get_tail(kind, head, buf) ==
    CASE kind = "Connect" -> get_fields(buf, tail_types(kind, head), <<>>)
      [] kind = "Publish" -> Ok(<<Field("Raw", buf)>>, <<>>)
      [] kind \in {"Subscribe", "SubAck", "Unsubscribe", "UnsubAck"} ->
            Try(get_list(buf, tail_types(kind, head), <<>>),
                LAMBDA list : IF list.value = <<>> THEN empty_list(kind) ELSE list)
      [] OTHER -> Ok(<<>>, buf)

\* Publish::deserialize reads the topic name first and refuses a wildcard
publish_topic(kind, buf) ==
    IF kind # "Publish" THEN Ok(0, <<>>)
    ELSE Try(get_fields(buf, <<"Topic">>, <<>>), LAMBDA topic :
             IF is_wildcard(topic_chars(topic.value[1].value)) THEN Err("BadTopic")
             ELSE Ok(0, <<>>))

\* Connect::deserialize checks the protocol name, the version and the
\* reserved flag
connect_head(kind, head) ==
    IF kind # "Connect" THEN head
    ELSE IF head.value[1].value # <<77, 81, 84, 84>> THEN Err("BadConnectMessage")
    ELSE IF head.value[2].value # 5 THEN Err("UnsupportedMqttVersion")
    ELSE IF head.value[3].value % 2 = 1 THEN Err("BadConnectMessage")
    ELSE head

\* a CONNECT and a CONNACK must fill their length
filled(packet, length) ==
    IF packet.kind \in {"Connect", "ConnAck"} /\ partial_size(packet) # length
    THEN Err("BadConnectMessage")
    ELSE Ok(packet, <<>>)

\* deserialize of a kind on its length.value bytes: the fields, the property
\* table, which must be valid for the kind, and the fields after it; the
\* reason codes are bytes, and a CONNECT has no will
kind_deserialize(kind, flags, length, buf) ==
    Try(publish_topic(kind, buf), LAMBDA topic :
    Try(get_fields(buf, head_types(kind, flags), <<>>), LAMBDA fields :
    Try(connect_head(kind, fields), LAMBDA head :
    Try(Properties_deserialize(head.rest), LAMBDA props :
    IF ~is_valid_for(props.value, {PropOwner(kind)}) THEN Err("BadProperty")
    ELSE Try(get_tail(kind, head.value, props.rest), LAMBDA tail :
         Try(filled([kind |-> kind, flags |-> flags, head |-> head.value,
                     props |-> props.value, tail |-> tail.value], length), LAMBDA packet :
         Ok(packet.value, tail.rest)))))))

\* min_size of a kind without its length, for the kinds whose decoder
\* compares: the identifier, the reason code and the one byte of an empty
\* table
min_length(kind) ==
    CASE kind \in {"Auth", "Disconnect"} -> 2
      [] kind \in {"PubAck", "PubComp", "UnsubAck"} -> 4
      [] OTHER -> 0

\* the error of a decoder whose length is below its min_size
too_short(kind) ==
    Err(CASE kind = "Auth" -> "BadAuthMessage"
          [] kind = "Disconnect" -> "BadDisconnectMessage"
          [] kind = "PubAck" -> "BadConnAckMessage"
          [] kind = "PubComp" -> "BadPubCompMessage"
          [] kind = "UnsubAck" -> "BadUnsubAckMessage")

\* the length after the first byte, then the kind in that many bytes
body_deserialize(kind, flags, buf) ==
    Try(MqttVariableBytesInt_deserialize(buf), LAMBDA length :
    IF length.value < min_length(kind) THEN too_short(kind)
    ELSE IF Len(length.rest) < length.value THEN Err("InsufficientBuffer")
    ELSE Try(kind_deserialize(kind, flags, length.value, SubSeq(length.rest, 1, length.value)),
             LAMBDA packet :
             Ok(packet.value,
                packet.rest \o SubSeq(length.rest, length.value + 1, Len(length.rest)))))

\* Packet::deserialize
Packet_deserialize(buf) ==
    IF Len(buf) < 2 THEN Err("InsufficientBuffer")
    ELSE Try(first_byte(Head(buf)), LAMBDA kind :
         IF Ping(kind.value)
         THEN (IF buf[2] = 0
               THEN Ok([kind |-> kind.value, flags |-> 0, head |-> <<>>,
                        props |-> Properties_new, tail |-> <<>>],
                       SubSeq(buf, 3, Len(buf)))
               ELSE Err("BadPing"))
         ELSE body_deserialize(kind.value,
                               IF kind.value = "Publish" THEN Head(buf) % 16 ELSE 0,
                               Tail(buf)))

\* the properties given to a packet
MaxProps == 2

\* a packet of a kind before it is given properties
Built(kind, flags, head, tail) ==
    [kind |-> kind, flags |-> flags, head |-> head, props |-> Properties_new, tail |-> tail]

TopicA == Field("Topic", <<97>>)
TopicB == Field("Topic", <<97, 47, 35>>)
Id == Field("TwoBytesInt", 256)
\* the packets the constructors and setters of each kind build: new, the
\* setters of its fields, and add_topic or add_reason_code any number of
\* times, none included
Packets ==
    {Built("Connect", 0, <<Field("String", <<77, 81, 84, 84>>), Field("Byte", 5),
                           Field("Byte", flags), Field("TwoBytesInt", 60)>>,
           <<Field("String", <<99>>)>>
           \o (IF flags \div 128 = 1 THEN <<Field("String", <<117>>)>> ELSE <<>>)
           \o (IF (flags \div 64) % 2 = 1 THEN <<Field("Data", <<112>>)>> ELSE <<>>)) :
        flags \in {2, 128, 194}}
    \cup {Built("ConnAck", 0, <<Field("Byte", flags), Field("Byte", 0)>>, <<>>) :
             flags \in {0, 1}}
    \cup {Built("Publish", flags, <<TopicA>> \o id, <<Field("Raw", payload)>>) :
             flags \in {0, 2, 9}, id \in {<<>>, <<Id>>}, payload \in {<<>>, <<1, 2>>}}
    \cup {Built(kind, 0, <<Id, Field("Byte", 0)>>, <<>>) :
             kind \in {"PubAck", "PubRec", "PubRel", "PubComp"}}
    \cup {Built("Subscribe", 0, <<Id>>, topics) :
             topics \in {<<>>, <<TopicA, Field("Byte", 1)>>,
                         <<TopicA, Field("Byte", 1), TopicB, Field("Byte", 0)>>}}
    \cup {Built("Unsubscribe", 0, <<Id>>, topics) :
             topics \in {<<>>, <<TopicA>>, <<TopicA, TopicB>>}}
    \cup {Built(kind, 0, <<Id>>, reason_codes) :
             kind \in {"SubAck", "UnsubAck"},
             reason_codes \in {<<>>, <<Field("Byte", 0)>>,
                               <<Field("Byte", 0), Field("Byte", 128)>>}}
    \cup {Built(kind, 0, <<Field("Byte", 0)>>, <<>>) : kind \in {"Disconnect", "Auth"}}
    \cup {Built(kind, 0, <<>>, <<>>) : kind \in {"PingReq", "PingRes"}}

NoPacket == Built("none", 0, <<>>, <<>>)

\* a packet is built and given properties, written, read back and written
\* again; and a byte is given to the decoder as the first of a packet
InitPacket ==
    /\ InitCodecIdle
    /\ \/ \E p \in Packets :
             codec = [op |-> "packet", at |-> "built", packet |-> p, added |-> 0, byte |-> 0,
                      buf |-> <<>>, frame_len |-> 0, out |-> Err(""), again |-> <<>>]
       \/ \E b \in 0..255 :
             codec = [op |-> "packet", at |-> "byte", packet |-> NoPacket, added |-> 0,
                      byte |-> b, buf |-> <<>>, frame_len |-> 0, out |-> Err(""),
                      again |-> <<>>]

\* add_prop of each kind: checked_insert with the owner of the kind
packet_add_prop(key, value) ==
    /\ codec.op = "packet" /\ codec.at = "built"
    /\ ~Ping(codec.packet.kind)
    /\ codec.added < MaxProps
    /\ codec' = [codec EXCEPT
                    !.added = @ + 1,
                    !.packet.props = Properties_checked_insert(
                                        @, key, value, {PropOwner(codec.packet.kind)}).self]
    /\ UNCHANGED codecRest

packet_serialize ==
    /\ codec.op = "packet" /\ codec.at = "built"
    /\ \E order \in key_orders(codec.packet.props) :
          codec' = [codec EXCEPT !.at = "serialized",
                                 !.buf = Packet_serialize(codec.packet, order),
                                 !.frame_len = Packet_size(codec.packet)]
    /\ UNCHANGED codecRest

packet_deserialize ==
    /\ codec.op = "packet" /\ codec.at = "serialized"
    /\ codec' = [codec EXCEPT !.at = "deserialized", !.out = Packet_deserialize(codec.buf)]
    /\ UNCHANGED codecRest

packet_serialize_again ==
    /\ codec.op = "packet" /\ codec.at = "deserialized" /\ codec.out.ok
    /\ \E order \in key_orders(codec.out.value.props) :
          codec' = [codec EXCEPT !.at = "serialized again",
                                 !.again = Packet_serialize(codec.out.value, order)]
    /\ UNCHANGED codecRest

packet_first_byte ==
    /\ codec.op = "packet" /\ codec.at = "byte"
    /\ codec' = [codec EXCEPT !.at = "first byte", !.out = first_byte(codec.byte)]
    /\ UNCHANGED codecRest

\* the most bytes a peer leaves out at the end of a body, and the most it
\* adds there
MaxCut == 2
MaxPad == 1

\* the frame a peer sends for the packet written: the first byte, the body
\* with its last cut bytes left out and pad zero bytes added, and before it
\* the number of its bytes, in the shortest encoding or, when long, on two
\* bytes
peer_frame(buf, cut, pad, long) ==
    LET written == MqttVariableBytesInt_deserialize(Tail(buf)).rest
        body == SubSeq(written, 1, Len(written) - cut) \o [i \in 1..pad |-> 0]
    IN <<Head(buf)>>
       \o (IF long THEN <<128 + Len(body), 0>>
           ELSE MqttVariableBytesInt_serialize(Len(body)))
       \o body

\* a peer sends a whole frame of its own making
packet_frame(cut, pad, long) ==
    /\ codec.op = "packet" /\ codec.at = "serialized"
    /\ ~Ping(codec.packet.kind)
    /\ cut <= Len(MqttVariableBytesInt_deserialize(Tail(codec.buf)).rest)
    /\ cut = 0 \/ pad = 0
    /\ codec' = [codec EXCEPT !.at = "framed",
                               !.buf = peer_frame(codec.buf, cut, pad, long)]
    /\ UNCHANGED codecRest

\* MqttClient::recv on a buffer that holds the frame: from_bytes, and the
\* frame_len of the packet by which the buffer advances
packet_recv ==
    /\ codec.op = "packet" /\ codec.at = "framed"
    /\ codec' = [codec EXCEPT
                    !.at = "received",
                    !.out = Packet_deserialize(codec.buf),
                    !.frame_len = IF Packet_deserialize(codec.buf).ok
                                  THEN Packet_size(Packet_deserialize(codec.buf).value)
                                  ELSE 0]
    /\ UNCHANGED codecRest

NextPacket ==
    \/ \E key \in PropertyKeys, value \in PropValues : packet_add_prop(key, value)
    \/ packet_serialize
    \/ packet_deserialize
    \/ packet_serialize_again
    \/ packet_first_byte
    \/ \E cut \in 0..MaxCut, pad \in 0..MaxPad, long \in BOOLEAN : packet_frame(cut, pad, long)
    \/ packet_recv
SpecPacket == InitPacket /\ [][NextPacket]_vars

C23_DecodeOfSerializeRoundTrips ==
    codec.op = "packet" =>
        /\ codec.at = "deserialized" => codec.out.ok /\ codec.out.rest = <<>>
        /\ codec.at = "serialized again" => codec.again = codec.buf

\* the first bytes the statement of C29 takes for accepted: a kind of 1..15
\* with the low four bits 0b0010 for PUBREL, SUBSCRIBE and UNSUBSCRIBE, any
\* for a PUBLISH, and 0 for the other kinds
AcceptedAnyPublish(byte1) ==
    /\ byte1 \div 16 \in 1..15
    /\ CASE byte1 \div 16 \in {6, 8, 10} -> byte1 % 16 = 2
         [] byte1 \div 16 = 3 -> TRUE
         [] OTHER -> byte1 % 16 = 0

\* the same with the PUBLISH that sets both QoS bits left out
AcceptedPublishOneQoS(byte1) ==
    /\ AcceptedAnyPublish(byte1)
    /\ byte1 \div 16 = 3 => (byte1 \div 2) % 4 # 3

\* C29 as stated: the decoder goes on after the first byte exactly when it
\* has the pattern of its kind, a PUBLISH with any low four bits, and every
\* packet written begins with such a byte
C29_FirstByteAnyPublishFlags ==
    codec.op = "packet" =>
        /\ codec.at = "first byte" => (codec.out.ok <=> AcceptedAnyPublish(codec.byte))
        /\ codec.at = "serialized" => AcceptedAnyPublish(codec.buf[1])

\* C29 amended: the decoder goes on after the first byte exactly when it has
\* the pattern of its kind, a PUBLISH with any low four bits that do not set
\* both QoS bits, and every packet written begins with such a byte
C29_FirstByteOfItsKind ==
    codec.op = "packet" =>
        /\ codec.at = "first byte" => (codec.out.ok <=> AcceptedPublishOneQoS(codec.byte))
        /\ codec.at = "serialized"
              => /\ AcceptedPublishOneQoS(codec.buf[1])
                 /\ codec.buf[1] \div 16 = PacketType(codec.packet.kind)

\* the decoder has refused the PUBLISH byte 0x36, which sets QoS1 and QoS2
C29_Witness ==
    /\ codec.op = "packet" /\ codec.at = "first byte"
    /\ codec.byte = 54
    /\ ~codec.out.ok /\ codec.out.err = "BadQoS"

(***************************************************************************)
(* The index under its locks (server-lib/src/topics.rs).  Every Block has  *)
(* an RwLock around its sub_blocks and its two maps, each map has an       *)
(* RwLock of its own, and so has the reverse index.  A call is a sequence  *)
(* of steps, one for each lock it awaits.  The locks of the maps and of    *)
(* the reverse index, and the write lock of a Block, are held for no       *)
(* longer than the step that takes them; the read guard `raii` of          *)
(* Block::visit and Block::collect_subs is held while the call is in the   *)
(* blocks below.  A writer that waits holds back the readers that come     *)
(* after it.                                                               *)
(***************************************************************************)
\* the tasks that call the index, and the calls each makes one after the
\* other
MaxVisitors == 2
MaxVisits == 2
Visitors == 1..MaxVisitors
VisitFilters == {<<"a">>, <<"a", "/", "a">>, <<"a", "/", "#">>}
VisitTopics == {<<"a">>, <<"a", "/", "a">>}

NoVisit(n, did) ==
    [op |-> "idle", n |-> n, did |-> did, clientid |-> "", topic |-> <<>>, topics |-> {},
     pc |-> "idle", at |-> RootPath, sections |-> <<>>, held |-> {}, frames |-> <<>>,
     collected |-> EmptyMap]

\* the read guards held if Block::visit took its guard before it called
\* create_if_not_existing
lock_readers_before_create(path) ==
    {p \in Visitors : path \in calls[p].held
                      \/ (calls[p].pc \in {"contains", "create", "write"}
                          /\ calls[p].at = path)}

\* the tasks that hold a read guard of the lock of block `path`
lock_readers(path) == {p \in Visitors : path \in calls[p].held}

\* the tasks that wait in Block::write of block `path`
lock_writers(path) == {p \in Visitors : calls[p].pc = "write" /\ calls[p].at = path}

\* RwLock::read is granted: no writer waits
can_read(path) == lock_writers(path) = {}

\* RwLock::write is granted: no reader holds a guard
can_write(path) == lock_readers(path) = {}

InitLock ==
    /\ root_block = TopicsTable_new.root_block
    /\ reverse_index = TopicsTable_new.reverse_index
    /\ calls = [p \in Visitors |-> NoVisit(0, {})]
    /\ InitIndexIdle
    /\ InitBrokerIdle
    /\ InitAuxIdle

lockRest == <<apiVars, brokerVars, auxVars>>

\* the match of Block::visit on the next section: run on "#" and at the
\* end, else create_if_not_existing when `create`, else the read guard
visit_pc(sections, create) ==
    IF sections = <<>> \/ Head(sections) = <<"#">> THEN "run"
    ELSE IF create THEN "contains"
    ELSE "raii"

\* a call enters TopicsTable::visit
enter_visit(call, topic, create) ==
    [call EXCEPT !.topic = topic, !.at = RootPath, !.sections = topic_to_subtopics(topic),
                 !.held = {}, !.pc = visit_pc(topic_to_subtopics(topic), create)]

\* a call returns
return(call) == NoVisit(call.n + 1, call.did \cup {call.op})

\* TopicsTable::visit has returned: subscribe goes on to reverse_index_add,
\* unsubscribe returns, unsubscribe_all goes on with its loop
leave_visit(call) ==
    CASE call.op = "subscribe" -> [call EXCEPT !.held = {}, !.pc = "reverse_index_add"]
      [] call.op = "unsubscribe" -> return(call)
      [] call.op = "unsubscribe_all" ->
            IF call.topics = {} THEN return(call)
            ELSE [call EXCEPT !.held = {}, !.pc = "topic_remove"]

\* TopicsTable::subscribe is called
visit_subscribe(p, clientid, topic) ==
    /\ calls[p].op = "idle" /\ calls[p].n < MaxVisits
    /\ calls' = [calls EXCEPT ![p] =
                    enter_visit([@ EXCEPT !.op = "subscribe", !.clientid = clientid],
                                topic, TRUE)]
    /\ UNCHANGED <<root_block, reverse_index, lockRest>>

\* Block::contains_subtopic in create_if_not_existing, under a read guard
\* dropped at once
visit_contains(p) ==
    /\ calls[p].pc = "contains"
    /\ can_read(calls[p].at)
    /\ calls' = [calls EXCEPT ![p].pc =
                    IF contains_subtopic(root_block, calls[p].at, Head(calls[p].sections))
                    THEN "raii" ELSE "create"]
    /\ UNCHANGED <<root_block, reverse_index, lockRest>>

\* the section was missing: the task makes a Block and asks for the write
\* guard
visit_create(p) ==
    /\ calls[p].pc = "create"
    /\ calls' = [calls EXCEPT ![p].pc = "write"]
    /\ UNCHANGED <<root_block, reverse_index, lockRest>>

\* the write guard of create_if_not_existing is granted and the new Block
\* inserted
visit_write(p) ==
    /\ calls[p].pc = "write"
    /\ can_write(calls[p].at)
    /\ root_block' = insert_block(root_block, calls[p].at, Head(calls[p].sections))
    /\ calls' = [calls EXCEPT ![p].pc = "raii"]
    /\ UNCHANGED <<reverse_index, lockRest>>

\* the read guard of Block::visit is granted: the visit goes on in the
\* sub-block under the guard, or ends where there is none
visit_raii(p) ==
    /\ calls[p].pc = "raii"
    /\ can_read(calls[p].at)
    /\ calls' = [calls EXCEPT ![p] =
                    IF contains_subtopic(root_block, @.at, Head(@.sections))
                    THEN [@ EXCEPT !.held = @ \cup {calls[p].at},
                                   !.at = Append(@, Head(calls[p].sections)),
                                   !.sections = Tail(@),
                                   !.pc = visit_pc(Tail(calls[p].sections),
                                                   calls[p].op = "subscribe")]
                    ELSE leave_visit(@)]
    /\ UNCHANGED <<root_block, reverse_index, lockRest>>

\* what the closure of topics_add and topic_remove does to the block
run(block, call) ==
    CASE call.op = "subscribe" /\ call.sections # <<>> ->
            insert_into_hash(block, call.clientid, 0, {})
      [] call.op = "subscribe" /\ call.sections = <<>> ->
            insert_into_subs(block, call.clientid, 0, {})
      [] call.op # "subscribe" /\ call.sections # <<>> -> remove_from_hash(block, call.clientid)
      [] call.op # "subscribe" /\ call.sections = <<>> -> remove_from_subs(block, call.clientid)

\* the closure runs on the block the visit ended at: a read guard of the
\* block and the write guard of its map, and the visit returns
visit_run(p) ==
    /\ calls[p].pc = "run"
    /\ can_read(calls[p].at)
    /\ root_block' = [root_block EXCEPT ![calls[p].at] = run(@, calls[p])]
    /\ calls' = [calls EXCEPT ![p] = leave_visit(@)]
    /\ UNCHANGED <<reverse_index, lockRest>>

\* TopicsTable::reverse_index_add, and subscribe returns
visit_reverse_index_add(p) ==
    /\ calls[p].pc = "reverse_index_add"
    /\ reverse_index' = reverse_index_add(reverse_index, calls[p].clientid, calls[p].topic)
    /\ calls' = [calls EXCEPT ![p] = return(@)]
    /\ UNCHANGED <<root_block, lockRest>>

\* TopicsTable::unsubscribe is called: reverse_index_remove, then the visit
visit_unsubscribe(p, clientid, topic) ==
    /\ calls[p].op = "idle" /\ calls[p].n < MaxVisits
    /\ reverse_index' = reverse_index_remove(reverse_index, clientid, topic)
    /\ calls' = [calls EXCEPT ![p] =
                    enter_visit([@ EXCEPT !.op = "unsubscribe", !.clientid = clientid],
                                topic, FALSE)]
    /\ UNCHANGED <<root_block, lockRest>>

\* TopicsTable::unsubscribe_all is called: reverse_index_remove_all
visit_unsubscribe_all(p, clientid) ==
    /\ calls[p].op = "idle" /\ calls[p].n < MaxVisits
    /\ reverse_index' = MapRemove(reverse_index, clientid)
    /\ calls' = [calls EXCEPT ![p] =
                    IF clientid \in DOMAIN reverse_index
                    THEN [@ EXCEPT !.op = "unsubscribe_all", !.clientid = clientid,
                                   !.topics = reverse_index[clientid], !.pc = "topic_remove"]
                    ELSE return([@ EXCEPT !.op = "unsubscribe_all"])]
    /\ UNCHANGED <<root_block, lockRest>>

\* one turn of the loop of unsubscribe_all: topic_remove of a filter taken
visit_topic_remove(p, topic) ==
    /\ calls[p].pc = "topic_remove"
    /\ topic \in calls[p].topics
    /\ calls' = [calls EXCEPT ![p] = enter_visit([@ EXCEPT !.topics = @ \ {topic}],
                                                 topic, FALSE)]
    /\ UNCHANGED <<root_block, reverse_index, lockRest>>

\* a call of Block::collect_subs on a block with the sections left
Frame(at, sections, stage) == [at |-> at, sections |-> sections, stage |-> stage]

\* TopicsTable::get_all_subscribed is called
visit_get_all_subscribed(p, topic) ==
    /\ calls[p].op = "idle" /\ calls[p].n < MaxVisits
    /\ calls' = [calls EXCEPT ![p] =
                    [@ EXCEPT !.op = "get_all_subscribed", !.topic = topic, !.pc = "collect",
                              !.frames = <<Frame(RootPath, topic_to_subtopics(topic),
                                                 "read")>>]]
    /\ UNCHANGED <<root_block, reverse_index, lockRest>>

\* the last call of collect_subs has returned: its guard is dropped, and
\* get_all_subscribed returns when it was the first
collect_return(call) ==
    IF Len(call.frames) = 1 THEN return(call)
    ELSE [call EXCEPT !.held = @ \ {call.frames[Len(call.frames)].at},
                      !.frames = SubSeq(@, 1, Len(@) - 1)]

\* the read guard of Block::collect_subs is granted: the hash_wildcard map
\* is collected, and at the end of the topic the subscribers map
collect_read(p) ==
    /\ calls[p].pc = "collect"
    /\ calls[p].frames[Len(calls[p].frames)].stage = "read"
    /\ can_read(calls[p].frames[Len(calls[p].frames)].at)
    /\ calls' = [calls EXCEPT ![p] =
                    IF @.frames[Len(@.frames)].sections = <<>>
                    THEN collect_return(
                            [@ EXCEPT !.collected =
                                collect_subscribers(
                                    root_block[calls[p].frames[Len(calls[p].frames)].at],
                                    collect_hash_wildcard(
                                        root_block[calls[p].frames[Len(calls[p].frames)].at],
                                        @))])
                    ELSE [@ EXCEPT !.held = @ \cup {calls[p].frames[Len(calls[p].frames)].at},
                                   !.frames[Len(calls[p].frames)].stage = "+",
                                   !.collected =
                                       collect_hash_wildcard(
                                           root_block[calls[p].frames[Len(calls[p].frames)].at],
                                           @)]]
    /\ UNCHANGED <<root_block, reverse_index, lockRest>>

\* collect_subs goes into the sub-block "+" and then into the sub-block of
\* the section, where they are, and returns
collect_sub_block(p) ==
    /\ calls[p].pc = "collect"
    /\ calls[p].frames[Len(calls[p].frames)].stage \in {"+", "section", "return"}
    /\ calls' = [calls EXCEPT ![p] =
                    CASE @.frames[Len(@.frames)].stage = "return" -> collect_return(@)
                      [] OTHER ->
                        [@ EXCEPT
                            !.frames =
                                [@ EXCEPT ![Len(@)].stage =
                                            IF @ = "+" THEN "section" ELSE "return"]
                                \o (IF contains_subtopic(
                                          root_block, @[Len(@)].at,
                                          IF @[Len(@)].stage = "+" THEN <<"+">>
                                          ELSE Head(@[Len(@)].sections))
                                    THEN <<Frame(Append(@[Len(@)].at,
                                                        IF @[Len(@)].stage = "+" THEN <<"+">>
                                                        ELSE Head(@[Len(@)].sections)),
                                                 Tail(@[Len(@)].sections), "read")>>
                                    ELSE <<>>)]]
    /\ UNCHANGED <<root_block, reverse_index, lockRest>>

\* the steps of one task
visit_step(p) ==
    \/ visit_contains(p)
    \/ visit_create(p)
    \/ visit_write(p)
    \/ visit_raii(p)
    \/ visit_run(p)
    \/ visit_reverse_index_add(p)
    \/ \E topic \in VisitFilters : visit_topic_remove(p, topic)
    \/ collect_read(p)
    \/ collect_sub_block(p)

NextLock ==
    \/ \E p \in Visitors, c \in ClientIds, f \in VisitFilters : visit_subscribe(p, c, f)
    \/ \E p \in Visitors, c \in ClientIds, f \in VisitFilters : visit_unsubscribe(p, c, f)
    \/ \E p \in Visitors, c \in ClientIds : visit_unsubscribe_all(p, c)
    \/ \E p \in Visitors, t \in VisitTopics : visit_get_all_subscribed(p, t)
    \/ \E p \in Visitors : visit_step(p)

SpecLock == InitLock /\ [][NextLock]_vars

\* C31: when subscribe calls have run at the same time, none is in progress
\* any more and nothing was ever unsubscribed, every subscription made is
\* there: get_all_subscribed returns the client for every topic that its
\* filter matches
C31_ConcurrentSubscribesBothPresent ==
    (\A p \in Visitors : calls[p].op = "idle" /\ calls[p].did \subseteq {"subscribe"}) =>
        \A c \in DOMAIN reverse_index : \A f \in reverse_index[c] : \A t \in VisitTopics :
            filter_matches(f, t) => c \in DOMAIN get_all_subscribed(root_block, t)

\* C32: every running worker that the manager was handed has a directory
\* entry under its clientId holding its own queue, and every directory
\* entry is that of a worker the manager has not yet joined, also when two
\* connections use one clientId
C32_DirectoryMatchesRunningWorkers ==
    /\ \A k \in Conns : conn[k].state = "running" =>
          /\ conn[k].clientid \in DOMAIN clients
          /\ clients[conn[k].clientid] = k
    /\ \A c \in DOMAIN clients : conn[clients[c]].state \in {"running", "finished"}

\* C33: when the dispatcher dequeues a packet whose sender has no directory
\* entry any more (its worker ended and was retired), it handles or drops the
\* packet and stays in its loop, ready to dequeue the next one
C33_DispatcherSurvivesRetiredSender ==
    [][(/\ dispatcher.pc = "recv"
        /\ incoming # <<>>
        /\ incoming' = Tail(incoming)
        /\ Head(incoming).senderid \notin DOMAIN clients)
       => dispatcher'.pc # "panicked"]_vars

\* recv as the worker's task runs it: every step of the loop that can be
\* taken is taken, and the bytes the peer has sent arrive; that the
\* transport fails is up to the transport
SpecRecvLive ==
    /\ InitRecv
    /\ [][NextRecv]_vars
    /\ WF_vars(recv_packet)
    /\ WF_vars(recv_exceeded)
    /\ WF_vars(\E n \in 1..MaxPacketSize : recv_read_buf(n))
    /\ WF_vars(recv_read_eof)
    /\ WF_vars(recv_parse_error)

\* C34: once a read has returned zero bytes because the peer closed the
\* transport, recv eventually returns an error (on which the worker ends
\* and the manager removes its clientId)
C34_EofEndsRecvWithError == reader.eof ~> (reader.state = "failed")

\* C35: whenever the decoder accepts a frame, frame_len() of the packet it
\* returns is the number of the bytes of the frame as received, so that the
\* buffer of recv advances to the first byte of the next frame
C35_FrameLenIsTheFrameReceived ==
    (codec.op = "packet" /\ codec.at = "received" /\ codec.out.ok) =>
        codec.frame_len = Len(codec.buf)

\* C36: on a buffer that holds a whole frame the decoder returns a packet or
\* an error of malformed data, never InsufficientBuffer
C36_WholeFrameNeverInsufficientBuffer ==
    (codec.op = "packet" /\ codec.at = "received") =>
        ~(~codec.out.ok /\ codec.out.err = "InsufficientBuffer")

\* the broker with its dispatcher task scheduled: whenever the dispatcher
\* can take a step of process_forever, it eventually takes one
SpecLive ==
    /\ Init
    /\ [][Next]_vars
    /\ WF_vars(process_publish \/ process_publish_checked \/ process_subscribe
               \/ process_other)

\* C37: whatever the workers and the subscribers do, a full input queue of
\* the dispatcher does not stay full: the dispatcher eventually dequeues its
\* next packet, and a worker blocked on the queue can proceed
C37_DispatcherAlwaysDequeues ==
    (Len(incoming) = QueueLen) ~> (Len(incoming) < QueueLen)

\* the calls as tasks of the runtime: a task that can take the next step of
\* its call eventually takes it; whether and when a call is made is up to
\* the callers.  Which guards a call takes does not depend on the client
\* identifier, and the calls are made for one client.
NextLockLive ==
    \/ \E p \in Visitors, f \in VisitFilters : visit_subscribe(p, "c1", f)
    \/ \E p \in Visitors, f \in VisitFilters : visit_unsubscribe(p, "c1", f)
    \/ \E p \in Visitors : visit_unsubscribe_all(p, "c1")
    \/ \E p \in Visitors, t \in VisitTopics : visit_get_all_subscribed(p, t)
    \/ \E p \in Visitors : visit_step(p)

SpecLockLive ==
    /\ InitLock
    /\ [][NextLockLive]_vars
    /\ \A p \in Visitors : WF_vars(visit_step(p))

\* C38: every call of subscribe, unsubscribe, unsubscribe_all and
\* get_all_subscribed that was started returns, whatever calls run beside it
C38_AllCallsComplete ==
    \A p \in Visitors : (calls[p].op # "idle") ~> (calls[p].op = "idle")

\* a task waits in Block::write of the root for the read guard another task
\* holds there while that task waits for a guard further down
C38_Witness ==
    \E p, q \in Visitors :
        /\ calls[p].pc = "write" /\ calls[p].at = RootPath
        /\ RootPath \in calls[q].held
        /\ calls[q].pc = "raii"

(***************************************************************************)
(* The index of the server of apiformes/src/server_async: Topics, a tree   *)
(* of TopicLevel with a set of subscribers each, kept here as a map from   *)
(* the path of a level to its subscribers.                                 *)
(***************************************************************************)
MaxTopicsCalls == 2

\* the starting point and the sections resolve_path_mut and resolve_path
\* walk: a path that begins with '/' starts at "/" and keeps all its
\* sections, the empty first one included
Topics_sections(path) ==
    IF Head(path) = "/" THEN <<<<"/">>>> \o split(path) ELSE split(path)

\* Topics::resolve_path_mut: every level on the way is inserted when it is
\* missing
resolve_path_mut(topics, path) ==
    LET sections == Topics_sections(path)
        levels == {SubSeq(sections, 1, n) : n \in 1..Len(sections)}
    IN [level \in (DOMAIN topics) \cup levels |->
            IF level \in DOMAIN topics THEN topics[level] ELSE {}]

\* Topics::resolve_path
resolve_path(topics, path) ==
    LET sections == Topics_sections(path)
    IN IF \A n \in 1..Len(sections) : SubSeq(sections, 1, n) \in DOMAIN topics
       THEN Some(topics[sections]) ELSE None

\* Topics::subscribe
Topics_subscribe(topics, path, client) ==
    IF path = <<>> THEN topics
    ELSE [resolve_path_mut(topics, path) EXCEPT ![Topics_sections(path)] = @ \cup {client}]

\* Topics::unsbscribe
Topics_unsbscribe(topics, path, client) ==
    IF path = <<>> THEN topics
    ELSE [resolve_path_mut(topics, path) EXCEPT ![Topics_sections(path)] = @ \ {client}]

\* Topics::get_subscribed
Topics_get_subscribed(topics, path) ==
    IF path = <<>> THEN None ELSE resolve_path(topics, path)

NoTopicsCall == [op |-> "none", path |-> <<>>, client |-> "", result |-> None]

\* Topics::new
InitTopics ==
    /\ root_block = TopicsTable_new.root_block
    /\ reverse_index = TopicsTable_new.reverse_index
    /\ InitIndexIdle
    /\ calls = <<>>
    /\ InitBrokerIdle
    /\ handshake = NoHandshake
    /\ shutdown = NoShutdown
    /\ tasks = NoTasks
    /\ reader = NoReader
    /\ codec = NoCodec
    /\ server = [state |-> "topics", topics |-> EmptyMap, before |-> EmptyMap,
                 ncalls |-> 0, call |-> NoTopicsCall]

\* a call of Topics::subscribe; the caller keeps the tree as it was
topics_subscribe(path, client) ==
    /\ server.state = "topics" /\ server.ncalls < MaxTopicsCalls
    /\ server' = [server EXCEPT
                    !.topics = Topics_subscribe(@, path, client),
                    !.before = server.topics,
                    !.ncalls = @ + 1,
                    !.call = [op |-> "subscribe", path |-> path, client |-> client,
                              result |-> None]]
    /\ UNCHANGED newRest

\* a call of Topics::unsbscribe
topics_unsbscribe(path, client) ==
    /\ server.state = "topics" /\ server.ncalls < MaxTopicsCalls
    /\ server' = [server EXCEPT
                    !.topics = Topics_unsbscribe(@, path, client),
                    !.before = server.topics,
                    !.ncalls = @ + 1,
                    !.call = [op |-> "unsbscribe", path |-> path, client |-> client,
                              result |-> None]]
    /\ UNCHANGED newRest

\* a call of Topics::get_subscribed
topics_get_subscribed(path) ==
    /\ server.state = "topics" /\ server.ncalls < MaxTopicsCalls
    /\ server' = [server EXCEPT
                    !.before = server.topics,
                    !.ncalls = @ + 1,
                    !.call = [op |-> "get_subscribed", path |-> path, client |-> "",
                              result |-> Topics_get_subscribed(server.topics, path)]]
    /\ UNCHANGED newRest

NextTopics ==
    \/ \E path \in Filters, client \in ClientIds : topics_subscribe(path, client)
    \/ \E path \in Filters, client \in ClientIds : topics_unsbscribe(path, client)
    \/ \E path \in Filters : topics_get_subscribed(path)

SpecTopics == InitTopics /\ [][NextTopics]_vars

\* whether the client is among the subscribers of the level of the path
Topics_subscribed(topics, path, client) ==
    /\ path # <<>>
    /\ resolve_path(topics, path).some
    /\ client \in resolve_path(topics, path).value

\* C39: a lookup, and an unsubscribe of a client from a filter it is not
\* subscribed to, leave the tree as it was: no level is created and no set
\* of subscribers changes
C39_LookupAndUnsubscribeCreateNothing ==
    (/\ server.state = "topics"
     /\ \/ server.call.op = "get_subscribed"
        \/ /\ server.call.op = "unsbscribe"
           /\ ~Topics_subscribed(server.before, server.call.path, server.call.client))
    => server.topics = server.before

\* the same of TopicsTable: a lookup changes nothing, and an unsubscribe of
\* a pair that the reverse index does not hold changes nothing
C39_TopicsTableCreatesNothing ==
    \A c \in ClientIds, f \in Filters :
        (c \notin DOMAIN reverse_index \/ f \notin reverse_index[c])
        => unsubscribe(table, c, f) = table

\* C40: a call of Properties::insert that returns BadProperty leaves the
\* table as it was: the values held, the owners it is valid for, and its
\* size
C40_RejectedInsertLeavesTable ==
    [][(/\ codec.op = "props"
        /\ codec'.call = "insert"
        /\ codec'.n = codec.n + 1
        /\ codec'.res = "BadProperty")
       => codec'.table = codec.table]_vars

====
